---- MODULE Spec2Model ----
(***************************************************************************)
(* Verification model of the optech_web4 browser scripts.                  *)
(*                                                                         *)
(* Part 1 - the theme system: AppleThemeController / AppleThemeDetector /  *)
(* initializeAppleTheme (src/unnamed/part_000) and the older               *)
(* AppleDarkModeController (src/js/global.js).  The browser is single      *)
(* threaded, so every event handler is one atomic action; the statements   *)
(* of a handler are threaded through a record "w" (the world the handler   *)
(* reads and writes) in the order the source executes them.                *)
(*                                                                         *)
(* Part 2 - the scroll-reveal latch of the home page section controllers   *)
(* (src/unnamed/part_002) on top of observeElement (src/js/global.js) and  *)
(* observeIntersection (src/unnamed/part_003).                             *)
(*                                                                         *)
(* Part 3 - the page utilities, each a small state machine of its own:     *)
(* debounce (src/js/core/utils.js, src/js/global.js); the mobile menu of   *)
(* AppleNavbar (src/js/components/navbar.js) and of AppleNavbarController  *)
(* (src/js/global.js); AppleMegaMenu (src/unnamed/part_005) with its       *)
(* desktop menus and its mobile menu; the registry of running animations   *)
(* (src/js/core/animation.js); the start-up of the home page scripts       *)
(* (src/unnamed/part_002) after the global script (src/js/global.js).      *)
(***************************************************************************)
EXTENDS Integers, Sequences, FiniteSets, TLC

VARIABLES
    \* ---- environment of the theme system
    variant,      \* which controller class the page runs: "TC" | "DM"
    storeMode,    \* localStorage: "ok" | "quota" (setItem throws) | "disabled" (getItem and setItem throw)
    os,           \* prefers-color-scheme: "dark" | "light" | "throws" (.matches throws) | "absent" (no window.matchMedia)
    pageMeta,     \* number of <meta name="theme-color"> tags in the page markup
    pageNav,      \* children of .navbar-nav in the page markup; -1: no such container
    overlap,      \* how many transitions the user and the OS let run at a time
    \* ---- program state of the theme system
    phase,        \* "pristine" (page loaded, script not run) | "ready" (controller constructed) | "failed" (constructor threw) | "destroyed"
    cls,          \* theme marker classes of <html> and <body>
    data,         \* data-theme attribute of <html> and <body>
    metaCount,    \* number of <meta name="theme-color"> tags
    metaContent,  \* content of the first such tag
    store,        \* localStorage value under the theme key
    cur,          \* controller.currentTheme
    label,        \* aria-label of the toggle button
    icon,         \* icon shown in the toggle button
    navbar,       \* children of .navbar-nav, the toggle button among them once inserted
    listening,    \* the controller's listener is registered on the prefers-color-scheme query
    trans,        \* <body> carries the temporary transition class
    transTimers,  \* timeouts pending that will remove the transition class
    \* ---- what the last handler did (observations, not program state)
    applied,      \* theme given to the last DOM application (applyTheme or the detector)
    log,          \* the steps the last handler performed, in order
    transSaw,     \* the DOM as it was when the last handler added the transition class
    events,       \* the document-level events the last handler dispatched
    op,           \* the last handler: [name, arg]
    pre,          \* the world before the last handler
    resolved,     \* the last preference resolution: its inputs and its result
    activated,    \* the user has activated the toggle in this page session
    invalidSeen,  \* a value outside {light, dark} was stored or passed in
    base,         \* currentTheme when the current run of activations began
    nToggles,     \* length of the current run of consecutive activations
    persisted,    \* the theme last handed to saveTheme (kept across reloads)
    \* ---- scroll-reveal latch (one section controller)
    rVariant,     \* home script version: "legacy" | "modular"
    section,      \* the watched target: a page section or lazy media
    ioAvail,      \* the visibility primitive is available
    nElems,       \* number of child elements the reveal animates
    rPhase,       \* "none" | "watching" | "unobserved" | "fallback" |
                  \* "fallbackDone" | "skipped" | "failed"
    hasAnimated,  \* the controller's one-shot latch
    isVisible,    \* the section currently intersects the viewport
    pending,      \* intersection entries queued for the next observer callback
    timers,       \* timers started by reveals and not fired yet
    revealCalls,  \* how often the reveal callback was invoked
    revealDone,   \* how often the reveal callback returned normally
    lastTick,     \* reveals invoked by the last observer callback
    lateDelivery, \* the watcher callback ran again after the first reveal
    dataSrc,      \* the lazily loaded media element still carries data-src
    \* ---- debounce: one debounced function and the calls made to it
    dbImmediate,  \* the immediate argument of debounce
    dbTimeout,    \* the closure variable timeout: -1 (undefined) | 0 (null) | a timer id
    dbTimers,     \* pending timeouts: [id, args, left] with left the time to run
    dbNextId,     \* the id the next setTimeout returns
    dbBurst,      \* arguments of the calls of the current burst, in order
    dbInvoked,    \* arguments func was invoked with since the burst began
    dbTrailing,   \* how many of those invocations were made by a timeout
    dbCalls,      \* calls made so far
    \* ---- navbar with its mobile menu
    navVariant,   \* "modular" (AppleNavbar) | "legacy" (AppleNavbarController)
    navIOS,       \* isIOS()
    navWidth,     \* viewport class of window.innerWidth: "mobile" | "tablet" | "desktop"
    navOpen,      \* state.isOpen
    navShow,      \* the collapse element carries the class show
    navBodyOpen,  \* <body> carries the class menu-open
    navBodyFixed, \* <body> is pinned (position: fixed) to stop scrolling on iOS
    navAria,      \* aria-expanded of the toggler
    navOpacity,   \* inline opacity of the collapse element: "" | "0" | "1"
    navVisible,   \* the navbar is not translated out of view
    navTimers,    \* pending 200 ms timeouts of closeMobileMenu
    navFrames,    \* pending animation frames of openMobileMenu
    navResize,    \* the debounced resize handler is waiting to run
    navOp,        \* the last handler: its name, isOpen before it, the width it saw
    \* ---- mega menu
    mmWide,       \* window.innerWidth >= mobileBreakpoint
    mmIsDesktop,  \* state.isDesktop
    mmResize,     \* the debounced resize handler is waiting to run
    mmHover,      \* where the pointer is: [at |-> "none" | "trigger" | "menu", m |-> menu]
    mmActive,     \* the mega menus that carry the class active
    mmActiveMenu, \* state.activeMenu: a menu, or 0 for null
    mmAria,       \* aria-expanded of each trigger
    mmBackdrop,   \* elements.backdrop is set and the backdrop is in the document
    mmBackdropTimers, \* pending timeouts of removeMegaMenuBackdrop
    mmCloseTimeout,   \* the menu the pending timeout of scheduleClose is for, 0 if none
    mmClosing,    \* per menu: closeMegaMenu calls waiting for their fadeOut
    mmOpening,    \* openMegaMenu calls waiting for their fadeIn
    mobOpen,      \* state.isMobileMenuOpen
    mobMenuActive,   \* the mobile menu carries the class active
    mobToggleActive, \* the mobile toggle carries the class active
    mobAria,      \* aria-expanded of the mobile toggle
    mobLocked,    \* body scrolling is locked
    mobClosing,   \* closeMobileMenu calls waiting for their slideUp
    mobOpening,   \* openMobileMenu calls waiting for their slideDown
    mmOp,         \* the last event handled: [name, m]
    \* ---- animation registry
    anNow,        \* Date.now(), in milliseconds since the page was loaded
    anAnims,      \* the animations started: [kind, epoch, left, frame, resolved]
    anActive,     \* activeAnimations: key |-> index of the animation whose cancel it holds
    anCancels,    \* calls of cancelAllAnimations so far
    anLate,       \* a frame of an animation ran after a cancelAllAnimations that followed its start
    \* ---- start-up of the home page
    btVariant,    \* home script version: "legacy" | "modular"
    btHasGlobal,  \* the page includes the global script
    btGlobal,     \* initializeAppleGlobal has run: body carries apple-global-loaded
    btCalls,      \* calls of initializeAppleHome so far
    btHomePage,   \* window.AppleHomePage is set (modular)
    btListening,  \* the home script listens for appleGlobalLoaded
    btFallback,   \* the 1000 ms fallback timeout is pending (legacy)
    btStarts,     \* how often the controllers were scheduled
    btBatches,    \* per scheduling: how many of its six timeouts have fired
    btBuilt,      \* per section controller: how often it was constructed
    btLoaded,     \* body carries apple-home-loaded
    btEvents      \* appleHomeLoaded events dispatched

themeVars == <<variant, storeMode, os, pageMeta, pageNav, overlap, phase, cls, data,
               metaCount, metaContent, store, cur, label, icon, navbar,
               listening, trans, transTimers, applied, log, transSaw, events,
               op, pre, resolved, activated, invalidSeen, base, nToggles,
               persisted>>
revealVars == <<rVariant, section, ioAvail, nElems, rPhase, hasAnimated,
                isVisible, pending, timers, revealCalls, revealDone, lastTick,
                lateDelivery, dataSrc>>
debounceVars == <<dbImmediate, dbTimeout, dbTimers, dbNextId, dbBurst,
                  dbInvoked, dbTrailing, dbCalls>>
navVars == <<navVariant, navIOS, navWidth, navOpen, navShow, navBodyOpen,
             navBodyFixed, navAria, navOpacity, navVisible, navTimers,
             navFrames, navResize, navOp>>
megaVars == <<mmWide, mmIsDesktop, mmResize, mmHover, mmActive, mmActiveMenu,
              mmAria, mmBackdrop, mmBackdropTimers, mmCloseTimeout, mmClosing,
              mmOpening, mobOpen, mobMenuActive, mobToggleActive, mobAria,
              mobLocked, mobClosing, mobOpening, mmOp>>
animVars == <<anNow, anAnims, anActive, anCancels, anLate>>
bootVars == <<btVariant, btHasGlobal, btGlobal, btCalls, btHomePage, btListening,
              btFallback, btStarts, btBatches, btBuilt, btLoaded, btEvents>>
utilVars == <<debounceVars, navVars, megaVars, animVars, bootVars>>
vars == <<themeVars, revealVars, utilVars>>

(***************************************************************************)
(* Bounds of the model.                                                    *)
(***************************************************************************)
MaxToggles == 3     \* longest run of consecutive activations explored
MaxElems == 2       \* most child elements of a watched section
MaxPending == 3     \* most intersection entries batched into one callback
MaxReveals == 3     \* reveal invocations after which the run is cut off
MaxNavItems == 2    \* most children of the navigation container in the markup
MaxTransitions == 2 \* most transition timeouts pending at a time
MaxCalls == 4       \* most calls made to the debounced function
MaxArgs == 2        \* distinct argument values passed to it
DebounceWait == 2   \* the wait period of debounce, in clock ticks
MaxNavTimers == 2   \* most close timeouts (and most frames) of the navbar pending
MaxMenus == 2       \* mega menus of the page
MaxMegaPending == 2 \* pending animations of the mega menu beyond which events wait
MaxAnims == 3       \* animations started; also the last millisecond and the most cancellations
MaxFrames == 2      \* frames an animation takes to finish
MaxHomeCalls == 2   \* calls of the modular initializeAppleHome

(***************************************************************************)
(* Values.                                                                 *)
(***************************************************************************)
NoValue == "none"          \* null: no item under the key, attribute absent
Raised == "RAISED"         \* the call threw and nothing caught it
Themes == {"light", "dark"}
Invalid == "blue"          \* a string that is no theme
ThemeArgs == Themes \cup {Invalid}
Nodes == {"html", "body"}
ThemeClass(t) == CASE t = "light" -> "light-theme"
                   [] t = "dark" -> "dark-theme"
                   [] OTHER -> "blue-theme"
PageColor == "page"        \* content of a theme-color tag written in the markup
Unset == ""                \* content of a freshly created tag

World == [cls |-> cls, data |-> data, metaCount |-> metaCount,
          metaContent |-> metaContent, store |-> store, cur |-> cur,
          label |-> label, icon |-> icon, navbar |-> navbar, trans |-> trans,
          transTimers |-> transTimers, applied |-> applied,
          log |-> log, transSaw |-> transSaw, events |-> events]

\* The nodes of the document that applyTheme writes.
Dom(w) == [cls |-> w.cls, data |-> w.data, metaCount |-> w.metaCount,
           metaContent |-> w.metaContent]

\* The toggle button and the links of the navigation container.
Button == "toggle"
NavItems(k) == [i \in 1..k |-> "item"]

\* What a listener of the change event can read when the event is delivered.
View(w) == [cls |-> w.cls, data |-> w.data, metaContent |-> w.metaContent,
            store |-> w.store, cur |-> w.cur, label |-> w.label]

\* The applied presentation, controller theme and toggle label.
Presentation(w) == [cls |-> w.cls, data |-> w.data, metaCount |-> w.metaCount,
                    metaContent |-> w.metaContent, cur |-> w.cur,
                    label |-> w.label, icon |-> w.icon]

Step(w, s) == [w EXCEPT !.log = Append(@, s)]

(***************************************************************************)
(* AppleThemeController (src/unnamed/part_000).                            *)
(***************************************************************************)
\* this.themeColors[theme].primary
Primary(t) == IF t = "dark" THEN "#000000" ELSE "#f5f5f7"

\* localStorage.getItem(key): the value, null, or an exception
getItem(w) == IF storeMode = "disabled" THEN Raised ELSE w.store

\* getAriaLabel that names the current mode instead of the one to switch to
getAriaLabel_namesCurrent(theme) ==
    IF theme = "dark" THEN "Switch to dark mode" ELSE "Switch to light mode"

getAriaLabel(theme) ==
    IF theme = "dark" THEN "Switch to light mode" ELSE "Switch to dark mode"

\* icons[this.currentTheme] || icons.light
getToggleIcon(theme) == IF theme = "dark" THEN "sun" ELSE "moon"

\* getStoredTheme with the two sources consulted in the wrong order
getStoredTheme_osFirst(w) ==
    CASE os = "dark" -> "dark"
      [] os = "light" -> "light"
      [] OTHER -> IF getItem(w) \in Themes THEN getItem(w) ELSE "light"

getStoredTheme(w) ==
    LET stored == getItem(w)
    IN  IF stored \in Themes
        THEN stored
        ELSE CASE os = "dark" -> "dark"
               [] os = "light" -> "light"
               [] os = "throws" -> "light"    \* caught: final fallback
               [] OTHER -> "light"            \* prefersDark is undefined

\* updateMetaThemeColor that does not look for an existing tag
updateMetaThemeColor_appends(w, theme) ==
    LET w1 == [w EXCEPT !.metaCount = @ + 1,
                        !.metaContent = IF w.metaCount = 0 THEN Unset ELSE @]
    IN  IF theme \in Themes /\ w.metaCount = 0
        THEN [w1 EXCEPT !.metaContent = Primary(theme)]
        ELSE w1

updateMetaThemeColor(w, theme) ==
    LET w1 == IF w.metaCount = 0
              THEN [w EXCEPT !.metaCount = 1, !.metaContent = Unset]
              ELSE w
    IN  IF theme \in Themes
        THEN [w1 EXCEPT !.metaContent = Primary(theme)]
        ELSE w1     \* themeColors[theme] is undefined: TypeError, caught

\* body.classList.add(transitionClass); setTimeout(remove, transitionDuration)
addThemeTransition(w) ==
    [w EXCEPT !.trans = TRUE, !.transTimers = @ + 1, !.transSaw = <<Dom(w)>>]

\* applyTheme without classList.remove (what the detector does)
applyTheme_keepsOldClass(w, theme, withTransition) ==
    LET w1 == [w EXCEPT
                 !.cls = [n \in Nodes |-> w.cls[n] \cup {ThemeClass(theme)}],
                 !.data = [n \in Nodes |-> theme],
                 !.applied = theme]
        w2 == Step(updateMetaThemeColor(w1, theme), "apply")
    IN  IF withTransition THEN addThemeTransition(w2) ELSE w2

\* applyTheme that starts the transition before it touches the nodes
applyTheme_transitionFirst(w, theme, withTransition) ==
    LET w0 == IF withTransition THEN addThemeTransition(w) ELSE w
        w1 == [w0 EXCEPT
                 !.cls = [n \in Nodes |->
                            (w.cls[n] \ {"light-theme", "dark-theme"})
                                \cup {ThemeClass(theme)}],
                 !.data = [n \in Nodes |-> theme],
                 !.applied = theme]
    IN  Step(updateMetaThemeColor(w1, theme), "apply")

applyTheme(w, theme, withTransition) ==
    LET w1 == [w EXCEPT
                 !.cls = [n \in Nodes |->
                            (w.cls[n] \ {"light-theme", "dark-theme"})
                                \cup {ThemeClass(theme)}],
                 !.data = [n \in Nodes |-> theme],
                 !.applied = theme]
        w2 == Step(updateMetaThemeColor(w1, theme), "apply")
    IN  IF withTransition THEN addThemeTransition(w2) ELSE w2

\* saveTheme that never reaches the store
saveTheme_dropped(w, theme) == Step(w, "persist")

saveTheme(w, theme) ==
    Step(IF storeMode = "ok" THEN [w EXCEPT !.store = theme] ELSE w, "persist")

updateToggleButton(w) ==
    Step([w EXCEPT !.icon = getToggleIcon(w.cur),
                   !.label = getAriaLabel(w.cur)], "render")

dispatchThemeEvent(w, theme) ==
    Step([w EXCEPT !.events = Append(@, [name |-> "appleThemeChanged",
                                          theme |-> theme,
                                          timestamp |-> TRUE,
                                          seen |-> View(w)])], "broadcast")

\* setTheme that broadcasts before it persists and re-renders
setTheme_broadcastFirst(w, theme0, withTransition) ==
    LET theme == IF theme0 \in Themes THEN theme0 ELSE "light"
        w1 == [w EXCEPT !.cur = theme]
        w2 == applyTheme(w1, theme, withTransition)
        w3 == dispatchThemeEvent(w2, theme)
        w4 == saveTheme(w3, theme)
    IN  updateToggleButton(w4)

\* setTheme in which a failed store write ends the call
setTheme_writeFailureAborts(w, theme0, withTransition) ==
    LET theme == IF theme0 \in Themes THEN theme0 ELSE "light"
        w1 == [w EXCEPT !.cur = theme]
        w2 == applyTheme(w1, theme, withTransition)
        w3 == saveTheme(w2, theme)
        w4 == updateToggleButton(w3)
    IN  IF storeMode = "ok" THEN dispatchThemeEvent(w4, theme) ELSE w3

setTheme(w, theme0, withTransition) ==
    LET theme == IF theme0 \in Themes THEN theme0 ELSE "light"
        w1 == [w EXCEPT !.cur = theme]
        w2 == applyTheme(w1, theme, withTransition)
        w3 == saveTheme(w2, theme)
        w4 == updateToggleButton(w3)
    IN  dispatchThemeEvent(w4, theme)

\* toggleTheme that never flips back
toggleTheme_alwaysDark(w) == setTheme(w, "dark", TRUE)

toggleTheme(w) ==
    setTheme(w, IF w.cur = "dark" THEN "light" ELSE "dark", TRUE)

\* forceTheme that also persists
forceTheme_saves(w, theme) ==
    LET w1 == applyTheme(w, theme, FALSE)
    IN  updateToggleButton(saveTheme([w1 EXCEPT !.cur = theme], theme))

forceTheme(w, theme) ==
    LET w1 == applyTheme(w, theme, FALSE)
    IN  updateToggleButton([w1 EXCEPT !.cur = theme])

\* The listener without the stored-preference gate
systemThemeListener_ungated(w, matches) ==
    LET newTheme == IF matches THEN "dark" ELSE "light"
        w1 == applyTheme(w, newTheme, TRUE)
    IN  updateToggleButton([w1 EXCEPT !.cur = newTheme])

\* The 'change' listener of the media query; e.matches is the new OS value.
systemThemeListener(w, matches) ==
    IF getItem(w) = Raised
    THEN w                      \* caught and logged
    ELSE IF getItem(w) = NoValue
         THEN LET newTheme == IF matches THEN "dark" ELSE "light"
                  w1 == applyTheme(w, newTheme, TRUE)
              IN  updateToggleButton([w1 EXCEPT !.cur = newTheme])
         ELSE w

\* insertToggleButton that always appends
insertToggleButton_appends(w) ==
    IF pageNav < 0 THEN w ELSE [w EXCEPT !.navbar = Append(@, Button)]

\* insertToggleButton: before the last child, appended to an empty container,
\* skipped without a container
insertToggleButton(w) ==
    IF pageNav < 0
    THEN w
    ELSE IF w.navbar # <<>>
         THEN [w EXCEPT !.navbar = SubSeq(@, 1, Len(@) - 1) \o <<Button>>
                                       \o <<@[Len(@)]>>]
         ELSE [w EXCEPT !.navbar = <<Button>>]

\* createToggleButton: the button shows the icon and label of currentTheme
createToggleButton(w) ==
    insertToggleButton([w EXCEPT !.icon = getToggleIcon(w.cur),
                                 !.label = getAriaLabel(w.cur)])

\* destroy: the button leaves the document; nothing else is undone
destroy(w) ==
    [w EXCEPT !.navbar = SelectSeq(@, LAMBDA x : x # Button)]

\* new AppleThemeController(): [ok, w, out]; out is what getStoredTheme gave
AppleThemeController(w) ==
    IF os = "absent"
    THEN [ok |-> FALSE, w |-> w, out |-> NoValue]   \* window.matchMedia(...) throws
    ELSE LET theme == getStoredTheme(w)
             w1 == createToggleButton([w EXCEPT !.cur = theme])
         IN  [ok |-> TRUE, w |-> applyTheme(w1, theme, FALSE), out |-> theme]

\* AppleThemeDetector.detect
detect(w) ==
    IF getItem(w) = Raised \/ os = "throws"
    THEN w                      \* caught: returns 'light', nothing applied
    ELSE LET stored == getItem(w)
             theme == IF stored # NoValue THEN stored
                      ELSE IF os = "dark" THEN "dark" ELSE "light"
             w1 == [w EXCEPT
                      !.cls = [n \in Nodes |-> w.cls[n] \cup {ThemeClass(theme)}],
                      !.data = [n \in Nodes |-> theme],
                      !.applied = theme]
         IN  Step(IF w1.metaCount > 0
                  THEN [w1 EXCEPT !.metaContent =
                                     IF theme = "dark" THEN "#000000" ELSE "#f5f5f7"]
                  ELSE w1, "detect")

initializeAppleTheme(w) ==
    AppleThemeController(IF w.data["body"] = NoValue THEN detect(w) ELSE w)

(***************************************************************************)
(* AppleDarkModeController (src/js/global.js).                             *)
(***************************************************************************)
\* prefersDarkSet: this.prefersDark has been assigned
DM_getStoredTheme(w, prefersDarkSet) ==
    LET stored == getItem(w)
    IN  IF stored # Raised /\ stored # NoValue
        THEN stored
        ELSE IF ~prefersDarkSet THEN Raised    \* undefined.matches: TypeError
             ELSE CASE os = "dark" -> "dark"
                    [] os = "light" -> "light"
                    [] OTHER -> Raised

DM_updateMetaThemeColor(w, theme) ==
    LET w1 == IF w.metaCount = 0
              THEN [w EXCEPT !.metaCount = 1, !.metaContent = Unset]
              ELSE w
    IN  [w1 EXCEPT !.metaContent =
                      IF theme \in Themes THEN Primary(theme) ELSE "undefined"]

DM_applyTheme(w, theme) ==
    LET w1 == [w EXCEPT
                 !.cls = [n \in Nodes |->
                            (w.cls[n] \ {"light-theme", "dark-theme"})
                                \cup {ThemeClass(theme)}],
                 !.data = [n \in Nodes |-> theme],
                 !.applied = theme]
    IN  addThemeTransition(Step(DM_updateMetaThemeColor(w1, theme), "apply"))

DM_updateToggleIcon(w) ==
    Step([w EXCEPT !.icon = getToggleIcon(w.cur),
                   !.label = getAriaLabel(w.cur)], "render")

DM_setTheme(w, theme) ==
    LET w1 == [w EXCEPT !.cur = theme]
        w2 == DM_applyTheme(w1, theme)
        w3 == saveTheme(w2, theme)
        w4 == DM_updateToggleIcon(w3)
    IN  Step([w4 EXCEPT !.events = Append(@, [name |-> "themeChanged",
                                               theme |-> theme,
                                               timestamp |-> FALSE,
                                               seen |-> View(w4)])], "broadcast")

DM_toggleTheme(w) ==
    DM_setTheme(w, IF w.cur = "dark" THEN "light" ELSE "dark")

DM_systemThemeListener(w, matches) ==
    IF DM_getStoredTheme(w, TRUE) = Raised \/ getItem(w) = Raised
    THEN w                      \* the listener throws before changing anything
    ELSE IF getItem(w) = NoValue
         THEN LET newTheme == IF matches THEN "dark" ELSE "light"
                  w1 == DM_applyTheme(w, newTheme)
              IN  DM_updateToggleIcon([w1 EXCEPT !.cur = newTheme])
         ELSE w

\* new AppleDarkModeController(): getStoredTheme runs before prefersDark is set
AppleDarkModeController(w) ==
    LET theme == DM_getStoredTheme(w, FALSE)
    IN  IF theme = Raised \/ os = "absent"
        THEN [ok |-> FALSE, w |-> w, out |-> theme]
        ELSE LET w1 == insertToggleButton([w EXCEPT !.cur = theme,
                                                    !.icon = getToggleIcon(theme),
                                                    !.label = "Toggle dark mode"])
             IN  [ok |-> TRUE, w |-> DM_applyTheme(w1, theme), out |-> theme]

(***************************************************************************)
(* The theme system as a state machine.                                    *)
(***************************************************************************)
\* The world at the start of a handler: nothing done or dispatched yet.
Fresh(w) == [w EXCEPT !.log = <<>>, !.events = <<>>, !.transSaw = <<>>]

Snapshot == [cls |-> cls, data |-> data, metaCount |-> metaCount,
             metaContent |-> metaContent, cur |-> cur, label |-> label,
             icon |-> icon, store |-> store, applied |-> applied,
             navbar |-> navbar, trans |-> trans]

Commit(w) ==
    /\ cls' = w.cls /\ data' = w.data /\ metaCount' = w.metaCount
    /\ metaContent' = w.metaContent /\ store' = w.store /\ cur' = w.cur
    /\ label' = w.label /\ icon' = w.icon /\ applied' = w.applied
    /\ navbar' = w.navbar /\ trans' = w.trans /\ transTimers' = w.transTimers
    /\ log' = w.log /\ transSaw' = w.transSaw /\ events' = w.events

\* The last handler and the world it started from.
Handled(name, arg) == op' = [name |-> name, arg |-> arg] /\ pre' = Snapshot

StoreStates ==
    {<<m, v>> \in {"ok", "quota", "disabled"} \X (Themes \cup {Invalid, NoValue}) :
        m = "disabled" => v = NoValue}

ThemeInit ==
    /\ variant \in {"TC", "DM"}
    /\ \E sv \in StoreStates : storeMode = sv[1] /\ store = sv[2]
    /\ os \in {"dark", "light", "throws", "absent"}
    /\ pageMeta \in {0, 1}
    /\ pageNav \in -1..MaxNavItems
    /\ overlap \in 1..MaxTransitions
    /\ phase = "pristine"
    /\ navbar = NavItems(pageNav)
    /\ listening = FALSE
    /\ trans = FALSE /\ transTimers = 0 /\ transSaw = <<>>
    /\ cls = [n \in Nodes |-> {}]
    /\ data = [n \in Nodes |-> NoValue]
    /\ metaCount = pageMeta
    /\ metaContent = IF pageMeta = 0 THEN NoValue ELSE PageColor
    /\ cur = NoValue /\ label = NoValue /\ icon = NoValue
    /\ applied = NoValue /\ log = <<>> /\ events = <<>>
    /\ op = [name |-> "load", arg |-> NoValue]
    /\ pre = Snapshot
    /\ resolved = [called |-> FALSE, store |-> NoValue, os |-> os, out |-> NoValue]
    /\ activated = FALSE
    /\ invalidSeen = (store = Invalid)
    /\ base = NoValue
    /\ nToggles = 0
    /\ persisted = NoValue

EnvUnchanged == UNCHANGED <<variant, storeMode, pageMeta, pageNav, overlap>>

\* The theme the handler handed to saveTheme, if it came to that step.
Persisted(w) == IF "persist" \in {w.log[i] : i \in 1..Len(w.log)} THEN w.cur ELSE persisted

\* DOMContentLoaded: initializeAppleTheme() of part_000
InitializeTC ==
    /\ variant = "TC" /\ phase = "pristine"
    /\ LET r == initializeAppleTheme(Fresh(World))
       IN  /\ Commit(r.w)
           /\ phase' = IF r.ok THEN "ready" ELSE "failed"
           /\ resolved' = IF r.ok
                          THEN [called |-> TRUE, store |-> getItem(World),
                                os |-> os, out |-> r.out]
                          ELSE resolved
           /\ base' = r.w.cur
           /\ listening' = r.ok
    /\ Handled("init", NoValue)
    /\ nToggles' = 0
    /\ UNCHANGED <<os, activated, invalidSeen, persisted>>
    /\ EnvUnchanged

\* new AppleDarkModeController() of global.js
InitializeDM ==
    /\ variant = "DM" /\ phase = "pristine"
    /\ LET r == AppleDarkModeController(Fresh(World))
       IN  /\ Commit(r.w)
           /\ phase' = IF r.ok THEN "ready" ELSE "failed"
           /\ resolved' = [called |-> TRUE, store |-> getItem(World),
                           os |-> os, out |-> r.out]
           /\ base' = r.w.cur
           /\ listening' = r.ok
    /\ Handled("init", NoValue)
    /\ nToggles' = 0
    /\ UNCHANGED <<os, activated, invalidSeen, persisted>>
    /\ EnvUnchanged

Toggle(w) == IF variant = "TC" THEN toggleTheme(w) ELSE DM_toggleTheme(w)

\* One activation of the toggle button.
Activate(how) ==
    /\ phase = "ready"
    /\ \E i \in 1..Len(navbar) : navbar[i] = Button    \* the button is in the page
    /\ nToggles < MaxToggles
    /\ transTimers < overlap
    /\ Commit(Toggle(Fresh(World)))
    /\ persisted' = Persisted(Toggle(Fresh(World)))
    /\ Handled("activate", how)
    /\ activated' = TRUE
    /\ nToggles' = nToggles + 1
    /\ UNCHANGED <<phase, os, resolved, invalidSeen, base, listening>>
    /\ EnvUnchanged

\* handleClick / the click listener
Click == Activate("click")

\* handleKeydown / the keydown listener: only Enter and Space toggle
KeyDown ==
    \E key \in {"Enter", " ", "Tab"} :
        IF key \in {"Enter", " "}
        THEN Activate(key)
        ELSE /\ phase = "ready"
             /\ \E i \in 1..Len(navbar) : navbar[i] = Button
             /\ Commit(Fresh(World))
             /\ Handled("keydown", key)
             /\ UNCHANGED <<phase, os, resolved, activated, invalidSeen,
                            base, nToggles, persisted, listening>>
             /\ EnvUnchanged

\* window.AppleTheme.setTheme(theme): the public setter
SetThemeCall ==
    \E t \in ThemeArgs :
        /\ phase = "ready"
        /\ transTimers < overlap
        /\ LET w == IF variant = "TC" THEN setTheme(Fresh(World), t, TRUE)
                    ELSE DM_setTheme(Fresh(World), t)
           IN  Commit(w) /\ base' = w.cur /\ persisted' = Persisted(w)
        /\ Handled("setTheme", t)
        /\ invalidSeen' = (invalidSeen \/ t = Invalid)
        /\ nToggles' = 0
        /\ UNCHANGED <<phase, os, resolved, activated, listening>>
        /\ EnvUnchanged

\* window.AppleTheme.forceTheme(theme): AppleThemeController only
ForceThemeCall ==
    \E t \in ThemeArgs :
        /\ phase = "ready" /\ variant = "TC"
        /\ LET w == forceTheme(Fresh(World), t)
           IN  Commit(w) /\ base' = w.cur /\ persisted' = Persisted(w)
        /\ Handled("forceTheme", t)
        /\ invalidSeen' = (invalidSeen \/ t = Invalid)
        /\ nToggles' = 0
        /\ UNCHANGED <<phase, os, resolved, activated, listening>>
        /\ EnvUnchanged

\* The OS colour scheme changes; a constructed controller's listener runs.
OSChange ==
    /\ os \in {"dark", "light"}
    /\ transTimers < overlap
    /\ os' = IF os = "dark" THEN "light" ELSE "dark"
    /\ LET w == IF ~listening THEN Fresh(World)
                ELSE IF variant = "TC"
                     THEN systemThemeListener(Fresh(World), os' = "dark")
                     ELSE DM_systemThemeListener(Fresh(World), os' = "dark")
       IN  Commit(w) /\ base' = w.cur /\ persisted' = Persisted(w)
    /\ Handled("osChange", os')
    /\ nToggles' = 0
    /\ UNCHANGED <<phase, resolved, activated, invalidSeen, listening>>
    /\ EnvUnchanged

\* window.AppleTheme.destroy(): AppleThemeController only
DestroyCall ==
    /\ phase = "ready" /\ variant = "TC"
    /\ phase' = "destroyed"
    /\ Commit(destroy(Fresh(World)))
    /\ Handled("destroy", NoValue)
    /\ nToggles' = 0 /\ base' = cur
    /\ UNCHANGED <<os, resolved, activated, invalidSeen, persisted, listening>>
    /\ EnvUnchanged

\* A timeout set by addThemeTransition fires: the class leaves <body>.
TransitionEnd ==
    /\ transTimers > 0
    /\ transTimers' = transTimers - 1
    /\ trans' = FALSE
    /\ UNCHANGED <<phase, cls, data, metaCount, metaContent, store, cur, label,
                   icon, navbar, listening, applied, log, transSaw, events, op,
                   pre, resolved, activated, invalidSeen, base, nToggles,
                   persisted, os>>
    /\ EnvUnchanged

\* The page is loaded again: a new document, the same localStorage.
Reload ==
    /\ phase \in {"ready", "failed", "destroyed"}
    /\ phase' = "pristine"
    /\ cls' = [n \in Nodes |-> {}]
    /\ data' = [n \in Nodes |-> NoValue]
    /\ metaCount' = pageMeta
    /\ metaContent' = IF pageMeta = 0 THEN NoValue ELSE PageColor
    /\ cur' = NoValue /\ label' = NoValue /\ icon' = NoValue
    /\ applied' = NoValue /\ log' = <<>> /\ events' = <<>>
    /\ navbar' = NavItems(pageNav)
    /\ listening' = FALSE
    /\ trans' = FALSE /\ transTimers' = 0 /\ transSaw' = <<>>
    /\ Handled("reload", NoValue)
    /\ activated' = FALSE
    /\ invalidSeen' = (store = Invalid)
    /\ base' = NoValue
    /\ nToggles' = 0
    /\ resolved' = [resolved EXCEPT !.called = FALSE]
    /\ UNCHANGED <<store, os, persisted>>
    /\ EnvUnchanged

(***************************************************************************)
(* Scroll-reveal latch: one section controller of the home page.  The      *)
(* section controllers share no state (each has its own hasAnimated and    *)
(* its own observer), so one controller is modelled at a time; which one   *)
(* is chosen in the initial state.                                         *)
(***************************************************************************)
Sections == {"hero", "services", "about", "cta"}

\* What is watched: a page section, or a lazily loaded media element
\* (AppleLazyLoader of global.js, createLazyLoader of observers.js).
Targets == Sections \cup {"lazy"}

\* The reveal callback of the section (triggerEntranceAnimation, animateCards,
\* animateSection, animateCTA).  The modular hero and CTA reveals hand the
\* elements they found to entranceAnimation, which takes an empty array for a
\* single element (elements.length ? Array.from(elements) : [elements]) and
\* throws on its missing style; every other reveal guards or cannot be empty.
RevealThrows ==
    rVariant = "modular" /\ section \in {"hero", "cta"} /\ nElems = 0

\* The callback registered for lazily loaded media.
\*   AppleLazyLoader (global.js):  loadImage(target); observer.unobserve(target)
\*   createLazyLoader (observers.js): loadElement(target), which returns early
\*     when data-src is gone, then observer.unobserve(target) where no
\*     `observer` is in scope: a ReferenceError leaves the callback
lazyEntry(r) ==
    IF rVariant = "legacy"
    THEN [r EXCEPT !.calls = @ + 1, !.done = @ + 1, !.off = TRUE]
    ELSE [r EXCEPT !.calls = IF dataSrc THEN @ + 1 ELSE @,
                   !.done = IF dataSrc THEN @ + 1 ELSE @,
                   !.threw = TRUE]

\* The observer callback the controller registers:
\*   entries.forEach(entry => { if (entry.isIntersecting && !hasAnimated)
\*                                { reveal(); hasAnimated = true; } })
\* r = [flag, calls, done, timers, threw, off]
RECURSIVE onIntersect(_, _)
onIntersect(entries, r) ==
    IF entries = <<>> \/ r.threw
    THEN r
    ELSE IF section = "lazy"
         THEN onIntersect(Tail(entries),
                          IF Head(entries) THEN lazyEntry(r) ELSE r)
         ELSE IF Head(entries) /\ ~r.flag
              THEN IF RevealThrows
                   THEN [r EXCEPT !.calls = @ + 1, !.threw = TRUE]
                   ELSE onIntersect(Tail(entries),
                                    [r EXCEPT !.calls = @ + 1, !.done = @ + 1,
                                              !.timers = @ + nElems,
                                              !.flag = TRUE])
              ELSE onIntersect(Tail(entries), r)

\* observeElement of global.js (and the observer AppleLazyLoader creates)
\* hands the entries to the callback as they come
observeElement(entries, r) == onIntersect(entries, r)

\* observeIntersection of observers.js keeps the intersecting entries and
\* calls back only when there are any
observeIntersection(entries, r) ==
    LET hits == SelectSeq(entries, LAMBDA e : e)
    IN  IF hits # <<>> THEN onIntersect(hits, r) ELSE r

Latch == [flag |-> hasAnimated, calls |-> 0, done |-> 0, timers |-> 0,
          threw |-> FALSE, off |-> FALSE]

RevealInit ==
    /\ rVariant \in {"legacy", "modular"}
    /\ section \in Targets
    /\ ioAvail \in IF rVariant = "legacy" /\ section # "lazy"
                   THEN {"ok", "noHelper", "noIO"}
                   ELSE {"ok", "noIO"}
    /\ nElems \in 0..MaxElems
    /\ isVisible \in BOOLEAN
    /\ rPhase = "none"
    /\ hasAnimated = FALSE
    /\ pending = <<>>
    /\ timers = 0
    /\ revealCalls = 0
    /\ revealDone = 0
    /\ lastTick = 0
    /\ lateDelivery = FALSE
    /\ dataSrc = (section = "lazy" /\ nElems > 0)

RevealEnv == UNCHANGED <<rVariant, section, ioAvail, nElems>>

\* new Apple<Section>Controller(), new AppleLazyLoader(), createLazyLoader()
Construct ==
    /\ rPhase = "none"
    /\ LET guarded == section \in {"services", "lazy"} /\ nElems = 0
           loadAll == section = "lazy" /\ rVariant = "legacy" /\ ioAvail = "noIO"
           r == IF rVariant = "modular" /\ ioAvail = "noIO" /\ ~guarded
                THEN onIntersect(<<TRUE>>, Latch)    \* fallback of observeIntersection
                ELSE IF loadAll /\ ~guarded
                     THEN [Latch EXCEPT !.calls = 1, !.done = 1]   \* loadAllImages
                     ELSE Latch
       IN  /\ rPhase' =
                 CASE guarded -> "skipped"
                   [] loadAll -> "fallbackDone"
                   [] rVariant = "legacy" /\ ioAvail = "noHelper" ->
                        IF section \in {"hero", "services"} THEN "fallback" ELSE "skipped"
                   [] rVariant = "legacy" /\ ioAvail = "noIO" -> "failed"
                   [] rVariant = "modular" /\ ioAvail = "noIO" ->
                        IF r.threw THEN "failed" ELSE "fallbackDone"
                   [] OTHER -> "watching"
           /\ hasAnimated' = r.flag
           /\ revealCalls' = r.calls
           /\ revealDone' = r.done
           /\ timers' = r.timers
           /\ pending' = IF rPhase' = "watching" THEN <<isVisible>> ELSE <<>>
           /\ dataSrc' = (dataSrc /\ ~loadAll)
    /\ UNCHANGED <<isVisible, lastTick, lateDelivery>>
    /\ RevealEnv

\* The target crosses the visibility threshold: the observer queues an entry.
Scroll ==
    /\ rPhase = "watching"
    /\ Len(pending) < MaxPending
    /\ isVisible' = ~isVisible
    /\ pending' = Append(pending, isVisible')
    /\ UNCHANGED <<rPhase, hasAnimated, timers, revealCalls, revealDone,
                   lastTick, lateDelivery, dataSrc>>
    /\ RevealEnv

\* The observer delivers the queued entries in one callback.
Deliver ==
    /\ rPhase = "watching"
    /\ pending # <<>>
    /\ revealCalls < MaxReveals
    /\ LET r == IF rVariant = "legacy"
                THEN observeElement(pending, Latch)
                ELSE observeIntersection(pending, Latch)
           invoked == rVariant = "legacy" \/ \E i \in 1..Len(pending) : pending[i]
       IN  /\ hasAnimated' = r.flag
           /\ revealCalls' = revealCalls + r.calls
           /\ revealDone' = revealDone + r.done
           /\ timers' = timers + r.timers
           /\ lastTick' = r.calls
           /\ rPhase' = IF r.off THEN "unobserved" ELSE rPhase
           /\ lateDelivery' = (lateDelivery \/ (invoked /\ revealCalls > 0))
    /\ pending' = <<>>
    /\ UNCHANGED <<isVisible, dataSrc>>
    /\ RevealEnv

\* setTimeout(() => reveal(), 300) of the legacy hero and services fallback
FallbackFire ==
    /\ rPhase = "fallback"
    /\ rPhase' = "fallbackDone"
    /\ revealCalls' = revealCalls + 1
    /\ revealDone' = revealDone + 1
    /\ timers' = timers + nElems
    /\ UNCHANGED <<hasAnimated, isVisible, pending, lastTick, lateDelivery,
                   dataSrc>>
    /\ RevealEnv

\* One of the staggered timers of a reveal fires.
TimerFire ==
    /\ timers > 0
    /\ timers' = timers - 1
    /\ UNCHANGED <<rPhase, hasAnimated, isVisible, pending, revealCalls,
                   revealDone, lastTick, lateDelivery, dataSrc>>
    /\ RevealEnv

\* imageLoader.onload of a lazily loaded element: src is set, data-src removed
MediaLoaded ==
    /\ section = "lazy" /\ revealCalls > 0 /\ dataSrc
    /\ dataSrc' = FALSE
    /\ UNCHANGED <<rPhase, hasAnimated, isVisible, pending, timers, revealCalls,
                   revealDone, lastTick, lateDelivery>>
    /\ RevealEnv

(***************************************************************************)
(* debounce (src/js/core/utils.js 17-32; the copy in src/js/global.js      *)
(* 23-35 is the same code).  "d" is the closure of one debounced function  *)
(* together with the timeouts it has set; time is a clock whose tick       *)
(* brings every pending timeout one unit closer.                           *)
(***************************************************************************)
Args == 1..MaxArgs

\* Values of the closure variable timeout that are no timer id (ids are
\* positive): before the first call, and after a timeout has run.
Undefined == -1
Null == 0
Falsy == {Undefined, Null}

Debounced == [immediate |-> dbImmediate, timeout |-> dbTimeout,
              timers |-> dbTimers, nextId |-> dbNextId,
              invoked |-> dbInvoked, trailing |-> dbTrailing]

\* clearTimeout(timeout): undefined, null and ids of timeouts that ran are ignored
clearTimeout(d) == [d EXCEPT !.timers = {t \in @ : t.id # d.timeout}]

\* timeout = setTimeout(later, wait); later closes over args
setTimeout(d, args) ==
    [d EXCEPT !.timers = @ \cup {[id |-> d.nextId, args |-> args,
                                  left |-> DebounceWait]},
              !.timeout = d.nextId,
              !.nextId = @ + 1]

\* func.apply(this, args)
func(d, args) == [d EXCEPT !.invoked = Append(@, args)]

\* executedFunction that leaves the earlier timeout in place
executedFunction_noClear(d, args) ==
    LET callNow == d.immediate /\ d.timeout \in Falsy
        d1 == setTimeout(d, args)
    IN  IF callNow THEN func(d1, args) ELSE d1

\* the function debounce returns
executedFunction(d, args) ==
    LET callNow == d.immediate /\ d.timeout \in Falsy
        d1 == setTimeout(clearTimeout(d), args)
    IN  IF callNow THEN func(d1, args) ELSE d1

\* the callback of the timeout t
later(d, t) ==
    LET d1 == [d EXCEPT !.timeout = Null, !.timers = @ \ {t}]
    IN  IF ~d.immediate
        THEN [func(d1, t.args) EXCEPT !.trailing = @ + 1]
        ELSE d1

DebounceCommit(d) ==
    /\ dbTimeout' = d.timeout
    /\ dbTimers' = d.timers
    /\ dbNextId' = d.nextId
    /\ dbInvoked' = d.invoked
    /\ dbTrailing' = d.trailing

DebounceInit ==
    /\ dbImmediate \in BOOLEAN
    /\ dbTimeout = Undefined
    /\ dbTimers = {}
    /\ dbNextId = 1
    /\ dbBurst = <<>>
    /\ dbInvoked = <<>>
    /\ dbTrailing = 0
    /\ dbCalls = 0

\* The debounced function is called.  A call made while no timeout is
\* pending begins a new burst.
DebouncedCall ==
    /\ dbCalls < MaxCalls
    /\ \E a \in Args :
         LET begins == dbTimers = {}
             d0 == IF begins
                   THEN [Debounced EXCEPT !.invoked = <<>>, !.trailing = 0]
                   ELSE Debounced
         IN  /\ DebounceCommit(executedFunction(d0, a))
             /\ dbBurst' = IF begins THEN <<a>> ELSE Append(dbBurst, a)
    /\ dbCalls' = dbCalls + 1
    /\ UNCHANGED dbImmediate

\* Time passes: possible while no pending timeout is due.
DebounceTick ==
    /\ dbTimers # {}
    /\ \A t \in dbTimers : t.left > 0
    /\ dbTimers' = {[t EXCEPT !.left = @ - 1] : t \in dbTimers}
    /\ UNCHANGED <<dbImmediate, dbTimeout, dbNextId, dbBurst, dbInvoked,
                   dbTrailing, dbCalls>>

\* A timeout whose wait has elapsed runs its callback.
DebounceFire ==
    /\ \E t \in dbTimers :
         /\ t.left = 0
         /\ DebounceCommit(later(Debounced, t))
    /\ UNCHANGED <<dbImmediate, dbBurst, dbCalls>>

(***************************************************************************)
(* The navbar and its mobile menu: AppleNavbar                             *)
(* (src/js/components/navbar.js) and AppleNavbarController                 *)
(* (src/js/global.js).  The page has a toggler and a collapse element.     *)
(* Handlers are atomic; the timeouts and animation frames they start run   *)
(* later, as actions of their own.  The focus() that openMobileMenu        *)
(* schedules moves the keyboard focus only and is not represented.         *)
(***************************************************************************)
Widths == {"mobile", "tablet", "desktop"}

Nav == [open |-> navOpen, show |-> navShow, bodyOpen |-> navBodyOpen,
        bodyFixed |-> navBodyFixed, aria |-> navAria, opacity |-> navOpacity,
        visible |-> navVisible, timers |-> navTimers, frames |-> navFrames]

\* openMobileMenu: navbar.js 277-305, global.js 191-217
openMobileMenu(n) ==
    [n EXCEPT !.open = TRUE,
              !.show = TRUE,
              !.bodyOpen = TRUE,
              !.bodyFixed = IF navIOS THEN TRUE ELSE @,
              !.opacity = "0",
              !.frames = @ + 1,
              !.aria = IF navVariant = "modular" THEN "true" ELSE @]

\* closeMobileMenu that leaves the class menu-open on <body>
closeMobileMenu_keepsBodyClass(n) ==
    [n EXCEPT !.open = FALSE,
              !.bodyFixed = IF navIOS THEN FALSE ELSE @,
              !.opacity = "0",
              !.timers = @ + 1,
              !.aria = IF navVariant = "modular" THEN "false" ELSE @]

\* closeMobileMenu: navbar.js 310-334, global.js 222-248
closeMobileMenu(n) ==
    [n EXCEPT !.open = FALSE,
              !.bodyFixed = IF navIOS THEN FALSE ELSE @,
              !.bodyOpen = FALSE,
              !.opacity = "0",
              !.timers = @ + 1,
              !.aria = IF navVariant = "modular" THEN "false" ELSE @]

\* toggleMobileMenu: navbar.js 266-272, global.js 180-186
toggleMobileMenu(n) ==
    IF n.open THEN closeMobileMenu(n) ELSE openMobileMenu(n)

\* showNavbar (navbar.js 370-376); global.js 394-396 sets the same transform
showNavbar(n) == [n EXCEPT !.visible = TRUE]

\* hideNavbar (navbar.js 359-365); global.js 133-135
hideNavbar(n) == [n EXCEPT !.visible = FALSE]

\* The click handler of an in-page anchor link.  AppleNavbar closes the menu
\* whether or not the target exists (handleAnchorClick, navbar.js 219-235);
\* AppleNavbarController only when it exists (global.js 274-291).
handleAnchorClick(n, found) ==
    IF n.open /\ (navVariant = "modular" \/ found)
    THEN closeMobileMenu(n)
    ELSE n

\* The resize handler behind debounce: navbar.js 196-208, global.js 386-398
handleResize(n) ==
    LET n1 == IF navWidth = "desktop" /\ n.open THEN closeMobileMenu(n) ELSE n
    IN  IF navWidth = "desktop" THEN showNavbar(n1) ELSE n1

\* The scroll handler: on a mobile viewport with the menu closed the navbar
\* hides when the page moves down and shows when it moves up
\* (navbar.js 75-96, global.js 116-146).
handleScroll(n, dir) ==
    IF navWidth = "mobile" /\ ~n.open
    THEN IF dir = "down" THEN hideNavbar(n) ELSE showNavbar(n)
    ELSE n

NavCommit(n) ==
    /\ navOpen' = n.open
    /\ navShow' = n.show
    /\ navBodyOpen' = n.bodyOpen
    /\ navBodyFixed' = n.bodyFixed
    /\ navAria' = n.aria
    /\ navOpacity' = n.opacity
    /\ navVisible' = n.visible
    /\ navTimers' = n.timers
    /\ navFrames' = n.frames

NavHandled(name) ==
    navOp' = [name |-> name, was |-> navOpen, width |-> navWidth]

NavEnvUnchanged == UNCHANGED <<navVariant, navIOS, navWidth, navResize>>

\* The state the constructors leave (navbar.js 28-33, global.js 92-94)
NavInit ==
    /\ navVariant \in {"modular", "legacy"}
    /\ navIOS \in BOOLEAN
    /\ navWidth \in Widths
    /\ navOpen = FALSE /\ navShow = FALSE /\ navBodyOpen = FALSE
    /\ navBodyFixed = FALSE
    /\ navAria = NoValue
    /\ navOpacity = ""
    /\ navVisible = TRUE
    /\ navTimers = 0 /\ navFrames = 0
    /\ navResize = FALSE
    /\ navOp = [name |-> "init", was |-> FALSE, width |-> navWidth]

\* Handlers start no timeout or frame beyond the bound.
NavRoom == navTimers < MaxNavTimers /\ navFrames < MaxNavTimers

\* Click on the toggler (it lies inside the navbar, so the document click
\* handler that follows does nothing).
NavTogglerClick ==
    /\ NavRoom
    /\ NavCommit(toggleMobileMenu(Nav))
    /\ NavHandled("toggle")
    /\ NavEnvUnchanged

\* keydown Escape on the document
NavEscape ==
    /\ NavRoom
    /\ NavCommit(IF navOpen THEN closeMobileMenu(Nav) ELSE Nav)
    /\ NavHandled("escape")
    /\ NavEnvUnchanged

\* Click on the document outside the navbar
NavOutsideClick ==
    /\ NavRoom
    /\ NavCommit(IF navOpen THEN closeMobileMenu(Nav) ELSE Nav)
    /\ NavHandled("outside")
    /\ NavEnvUnchanged

\* Click on a nav link whose href starts with '#'
NavAnchorClick ==
    /\ NavRoom
    /\ \E found \in BOOLEAN : NavCommit(handleAnchorClick(Nav, found))
    /\ NavHandled("anchor")
    /\ NavEnvUnchanged

\* The window is resized: the debounced handler is (re)scheduled.
NavResizeEvent ==
    /\ \E wd \in Widths : wd # navWidth /\ navWidth' = wd
    /\ navResize' = TRUE
    /\ UNCHANGED <<navVariant, navIOS, navOpen, navShow, navBodyOpen,
                   navBodyFixed, navAria, navOpacity, navVisible, navTimers,
                   navFrames, navOp>>

\* 100 ms after the last resize event the handler runs.
NavResizeHandled ==
    /\ navResize /\ NavRoom
    /\ navResize' = FALSE
    /\ NavCommit(handleResize(Nav))
    /\ NavHandled("resize")
    /\ UNCHANGED <<navVariant, navIOS, navWidth>>

\* The page is scrolled and the debounced scroll handler runs.
NavScroll ==
    /\ \E dir \in {"down", "up"} : NavCommit(handleScroll(Nav, dir))
    /\ NavHandled("scroll")
    /\ NavEnvUnchanged

\* A timeout of closeMobileMenu fires (navbar.js 325-330, global.js 242-247).
NavCloseTimer ==
    /\ navTimers > 0
    /\ navTimers' = navTimers - 1
    /\ navShow' = FALSE
    /\ navOpacity' = ""
    /\ UNCHANGED <<navOpen, navBodyOpen, navBodyFixed, navAria, navVisible,
                   navFrames, navOp>>
    /\ NavEnvUnchanged

\* An animation frame of openMobileMenu runs (navbar.js 291-295).
NavFrame ==
    /\ navFrames > 0
    /\ navFrames' = navFrames - 1
    /\ navOpacity' = "1"
    /\ UNCHANGED <<navOpen, navShow, navBodyOpen, navBodyFixed, navAria,
                   navVisible, navTimers, navOp>>
    /\ NavEnvUnchanged

(***************************************************************************)
(* AppleMegaMenu (src/unnamed/part_005).  The page has MaxMenus mega       *)
(* menus, each with its trigger, a mobile toggle and a mobile menu.  An    *)
(* async method runs up to its await inside the handler that calls it; the *)
(* rest of it runs when the awaited animation has finished, as an action   *)
(* of its own.  Mobile submenus stay closed.                               *)
(***************************************************************************)
Menus == 1..MaxMenus

Mega == [isDesktop |-> mmIsDesktop, active |-> mmActive,
         activeMenu |-> mmActiveMenu, aria |-> mmAria,
         backdrop |-> mmBackdrop, backdropTimers |-> mmBackdropTimers,
         closeTimeout |-> mmCloseTimeout, closing |-> mmClosing,
         opening |-> mmOpening, mobOpen |-> mobOpen,
         mobMenuActive |-> mobMenuActive, mobToggleActive |-> mobToggleActive,
         mobAria |-> mobAria, mobLocked |-> mobLocked,
         mobClosing |-> mobClosing, mobOpening |-> mobOpening]

\* closeMegaMenu up to its await (part_005 181-189)
closeMegaMenu(g, m) ==
    IF m \notin g.active THEN g
    ELSE [g EXCEPT !.aria[m] = "false", !.closing[m] = @ + 1]

\* removeMegaMenuBackdrop (part_005 259-269)
removeMegaMenuBackdrop(g) ==
    IF ~g.backdrop THEN g
    ELSE [g EXCEPT !.backdropTimers = @ + 1]

\* closeMegaMenu after its await (part_005 191-202)
closeMegaMenuResumed(g, m) ==
    LET g1 == [g EXCEPT !.active = @ \ {m}, !.closing[m] = @ - 1]
    IN  IF g1.activeMenu = m
        THEN removeMegaMenuBackdrop([g1 EXCEPT !.activeMenu = 0])
        ELSE g1

RECURSIVE closeEach(_, _)
closeEach(g, todo) ==
    IF todo = {} THEN g
    ELSE LET m == CHOOSE x \in todo : \A y \in todo : x <= y
         IN  closeEach(closeMegaMenu(g, m), todo \ {m})

\* closeAllMegaMenus (part_005 207-217)
closeAllMegaMenus(g) == closeEach(g, Menus)

\* addMegaMenuBackdrop (part_005 222-254)
addMegaMenuBackdrop(g) ==
    IF g.backdrop THEN g ELSE [g EXCEPT !.backdrop = TRUE]

\* openMegaMenu up to its await (part_005 144-170)
openMegaMenu(g, m) ==
    LET g1 == closeAllMegaMenus(g)
        g2 == [g1 EXCEPT !.closeTimeout = 0,
                         !.activeMenu = m,
                         !.aria[m] = "true"]
        g3 == addMegaMenuBackdrop(g2)
    IN  [g3 EXCEPT !.active = @ \cup {m}, !.opening = @ + 1]

\* scheduleClose (part_005 132-139)
scheduleClose(g, m) == [g EXCEPT !.closeTimeout = m]

\* openMobileMenu up to its await (part_005 313-336)
Mega_openMobileMenu(g) ==
    [g EXCEPT !.mobOpen = TRUE,
              !.mobToggleActive = TRUE,
              !.mobAria = "true",
              !.mobLocked = TRUE,
              !.mobMenuActive = TRUE,
              !.mobOpening = @ + 1]

\* closeMobileMenu up to its await (part_005 354-367)
Mega_closeMobileMenu(g) ==
    [g EXCEPT !.mobOpen = FALSE,
              !.mobToggleActive = FALSE,
              !.mobAria = "false",
              !.mobClosing = @ + 1]

\* closeMobileMenu after its await (part_005 369-379)
Mega_closeMobileMenuResumed(g) ==
    [g EXCEPT !.mobMenuActive = FALSE,
              !.mobLocked = FALSE,
              !.mobClosing = @ - 1]

\* toggleMobileMenu (part_005 302-308)
Mega_toggleMobileMenu(g) ==
    IF g.mobOpen THEN Mega_closeMobileMenu(g) ELSE Mega_openMobileMenu(g)

\* The resize handler behind debounce (part_005 463-472)
Mega_handleResize(g) ==
    LET g1 == [g EXCEPT !.isDesktop = mmWide]
    IN  IF g.isDesktop # g1.isDesktop
        THEN Mega_closeMobileMenu(closeAllMegaMenus(g1))
        ELSE g1

\* The click handler of the document (part_005 499-511); the two flags say
\* whether the click landed in a mega menu or trigger, and in the mobile
\* menu or its toggle.
Mega_documentClick(g, isMenuClick, isMobileMenuClick) ==
    LET g1 == IF ~isMenuClick /\ g.activeMenu # 0
              THEN closeAllMegaMenus(g) ELSE g
    IN  IF ~isMobileMenuClick /\ g1.mobOpen
        THEN Mega_closeMobileMenu(g1) ELSE g1

MegaCommit(g) ==
    /\ mmIsDesktop' = g.isDesktop
    /\ mmActive' = g.active
    /\ mmActiveMenu' = g.activeMenu
    /\ mmAria' = g.aria
    /\ mmBackdrop' = g.backdrop
    /\ mmBackdropTimers' = g.backdropTimers
    /\ mmCloseTimeout' = g.closeTimeout
    /\ mmClosing' = g.closing
    /\ mmOpening' = g.opening
    /\ mobOpen' = g.mobOpen
    /\ mobMenuActive' = g.mobMenuActive
    /\ mobToggleActive' = g.mobToggleActive
    /\ mobAria' = g.mobAria
    /\ mobLocked' = g.mobLocked
    /\ mobClosing' = g.mobClosing
    /\ mobOpening' = g.mobOpening

RECURSIVE SumOver(_, _)
SumOver(f, S) ==
    IF S = {} THEN 0
    ELSE LET x == CHOOSE y \in S : TRUE IN f[x] + SumOver(f, S \ {x})

\* animations in progress
MegaPending == SumOver(mmClosing, Menus) + mmOpening + mobClosing + mobOpening

\* Events are handled while few animations and few backdrop timeouts are
\* in progress.
MegaRoom ==
    /\ MegaPending < MaxMegaPending
    /\ mmBackdropTimers < MaxMegaPending

\* The state the constructor leaves (part_005 27-39)
MegaInit ==
    /\ mmWide \in BOOLEAN
    /\ mmIsDesktop = mmWide
    /\ mmResize = FALSE
    /\ mmHover = [at |-> "none", m |-> 0]
    /\ mmActive = {}
    /\ mmActiveMenu = 0
    /\ mmAria = [m \in Menus |-> "false"]
    /\ mmBackdrop = FALSE
    /\ mmBackdropTimers = 0
    /\ mmCloseTimeout = 0
    /\ mmClosing = [m \in Menus |-> 0]
    /\ mmOpening = 0
    /\ mobOpen = FALSE /\ mobMenuActive = FALSE /\ mobToggleActive = FALSE
    /\ mobAria = "false"
    /\ mobLocked = FALSE
    /\ mobClosing = 0 /\ mobOpening = 0
    /\ mmOp = [name |-> "init", m |-> 0]

\* The pointer enters a trigger, or a mega menu that is showing
\* (mouseenter handlers, part_005 82-97).
MegaEnter ==
    /\ MegaRoom
    /\ mmHover.at = "none"
    /\ \E at \in {"trigger", "menu"}, m \in Menus :
         /\ at = "menu" => m \in mmActive
         /\ mmHover' = [at |-> at, m |-> m]
         /\ IF mmIsDesktop
            THEN MegaCommit(openMegaMenu(Mega, m))
                 /\ mmOp' = [name |-> "open", m |-> m]
            ELSE MegaCommit(Mega)
                 /\ mmOp' = [name |-> "enter", m |-> m]
    /\ UNCHANGED <<mmWide, mmResize>>

\* The pointer leaves the trigger or menu it is over
\* (mouseleave handlers, part_005 100-115).
MegaLeave ==
    /\ mmHover.at # "none"
    /\ mmHover' = [at |-> "none", m |-> 0]
    /\ MegaCommit(IF mmIsDesktop THEN scheduleClose(Mega, mmHover.m) ELSE Mega)
    /\ mmOp' = [name |-> "leave", m |-> mmHover.m]
    /\ UNCHANGED <<mmWide, mmResize>>

\* The timeout of scheduleClose fires (part_005 134-138).
MegaCloseTimeout ==
    /\ mmCloseTimeout # 0
    /\ LET m == mmCloseTimeout
           g == [Mega EXCEPT !.closeTimeout = 0]
       IN  MegaCommit(IF mmHover.m # m THEN closeMegaMenu(g, m) ELSE g)
    /\ UNCHANGED <<mmWide, mmResize, mmHover, mmOp>>

\* The fadeOut a closeMegaMenu call is waiting for has finished.
MegaFadeOutDone ==
    /\ \E m \in Menus :
         /\ mmClosing[m] > 0
         /\ MegaCommit(closeMegaMenuResumed(Mega, m))
    /\ UNCHANGED <<mmWide, mmResize, mmHover, mmOp>>

\* The fadeIn an openMegaMenu call is waiting for has finished; the rest of
\* the method sets the transform of the menu (part_005 172-175).
MegaFadeInDone ==
    /\ mmOpening > 0
    /\ MegaCommit([Mega EXCEPT !.opening = @ - 1])
    /\ UNCHANGED <<mmWide, mmResize, mmHover, mmOp>>

\* A timeout of removeMegaMenuBackdrop fires (part_005 264-269).
MegaBackdropTimer ==
    /\ mmBackdropTimers > 0
    /\ MegaCommit([Mega EXCEPT !.backdropTimers = @ - 1, !.backdrop = FALSE])
    /\ UNCHANGED <<mmWide, mmResize, mmHover, mmOp>>

\* Click on the backdrop: its own handler (part_005 249-253), then the
\* click handler of the document.
MegaBackdropClick ==
    /\ MegaRoom
    /\ mmBackdrop
    /\ MegaCommit(Mega_documentClick(closeAllMegaMenus(Mega), FALSE, FALSE))
    /\ mmOp' = [name |-> "backdrop", m |-> 0]
    /\ UNCHANGED <<mmWide, mmResize, mmHover>>

\* Click on the page outside menus, triggers, the mobile menu and its toggle
MegaOutsideClick ==
    /\ MegaRoom
    /\ MegaCommit(Mega_documentClick(Mega, FALSE, FALSE))
    /\ mmOp' = [name |-> "outside", m |-> 0]
    /\ UNCHANGED <<mmWide, mmResize, mmHover>>

\* keydown Escape (part_005 489-496)
MegaEscape ==
    /\ MegaRoom
    /\ MegaCommit(Mega_closeMobileMenu(closeAllMegaMenus(Mega)))
    /\ mmOp' = [name |-> "escape", m |-> 0]
    /\ UNCHANGED <<mmWide, mmResize, mmHover>>

\* Click on the mobile toggle, which the style sheet shows below the
\* breakpoint only: its handler (part_005 278-283), then the click handler
\* of the document.
MobToggleClick ==
    /\ MegaRoom
    /\ ~mmWide
    /\ MegaCommit(Mega_documentClick(Mega_toggleMobileMenu(Mega), FALSE, TRUE))
    /\ mmOp' = [name |-> "toggle", m |-> 0]
    /\ UNCHANGED <<mmWide, mmResize, mmHover>>

\* Click on a trigger: its handler (part_005 118-125), then the click
\* handler of the document; the trigger may lie inside the mobile menu.
MegaTriggerClick ==
    /\ MegaRoom
    /\ \E m \in Menus, inMobileMenu \in BOOLEAN :
         /\ LET g == IF ~mmIsDesktop THEN Mega_toggleMobileMenu(Mega) ELSE Mega
            IN  MegaCommit(Mega_documentClick(g, TRUE, inMobileMenu))
         /\ mmOp' = [name |-> "trigger", m |-> m]
    /\ UNCHANGED <<mmWide, mmResize, mmHover>>

\* The window is resized across the breakpoint: the debounced handler is
\* (re)scheduled.
MegaResizeEvent ==
    /\ mmWide' = ~mmWide
    /\ mmResize' = TRUE
    /\ UNCHANGED <<mmIsDesktop, mmHover, mmActive, mmActiveMenu, mmAria,
                   mmBackdrop, mmBackdropTimers, mmCloseTimeout, mmClosing,
                   mmOpening, mobOpen, mobMenuActive, mobToggleActive, mobAria,
                   mobLocked, mobClosing, mobOpening, mmOp>>

\* 100 ms after the last resize event the handler runs.
MegaResizeHandled ==
    /\ mmResize /\ MegaRoom
    /\ mmResize' = FALSE
    /\ MegaCommit(Mega_handleResize(Mega))
    /\ mmOp' = [name |-> "resize", m |-> 0]
    /\ UNCHANGED <<mmWide, mmHover>>

\* The slideUp a closeMobileMenu call is waiting for has finished.
MobSlideUpDone ==
    /\ mobClosing > 0
    /\ MegaCommit(Mega_closeMobileMenuResumed(Mega))
    /\ UNCHANGED <<mmWide, mmResize, mmHover, mmOp>>

\* The slideDown an openMobileMenu call is waiting for has finished; the
\* rest of the method sets the transform of the menu and schedules a focus
\* (part_005 338-348).
MobSlideDownDone ==
    /\ mobOpening > 0
    /\ MegaCommit([Mega EXCEPT !.mobOpening = @ - 1])
    /\ UNCHANGED <<mmWide, mmResize, mmHover, mmOp>>

\* No animation, timeout or debounced handler of the mega menu is pending.
MegaQuiescent ==
    /\ MegaPending = 0
    /\ mmBackdropTimers = 0
    /\ mmCloseTimeout = 0
    /\ ~mmResize

(***************************************************************************)
(* The registry of running animations (src/js/core/animation.js).          *)
(* animateScroll (62-99) and manualAnimate (141-199) start a frame loop    *)
(* and store a cancel function in the Map activeAnimations under a key     *)
(* made of the kind of animation and Date.now().                           *)
(***************************************************************************)
Kinds == {"scroll", "element"}

\* animationKey: `scroll-${Date.now()}` (animation.js 89), `element-${Date.now()}` (189)
animationKey(kind, now) == <<kind, now>>

\* activeAnimations.set(key, {cancel}): an entry under the same key is replaced
RegistrySet(reg, key, i) ==
    [k \in DOMAIN reg \cup {key} |-> IF k = key THEN i ELSE reg[k]]

\* The body of the promise in animateScroll / manualAnimate: the first frame
\* is requested and the cancel function is stored.
startAnimation(anims, reg, kind, now, epoch) ==
    [anims |-> Append(anims, [kind |-> kind, epoch |-> epoch,
                              left |-> MaxFrames, frame |-> TRUE,
                              resolved |-> FALSE]),
     reg |-> RegistrySet(reg, animationKey(kind, now), Len(anims) + 1)]

\* animate(currentTime): one frame update; the next frame is requested
\* while progress < 1, otherwise the promise is resolved
\* (animation.js 69-84, 160-183).
animate(a) ==
    IF a.left > 1
    THEN [a EXCEPT !.left = @ - 1]
    ELSE [a EXCEPT !.left = 0, !.frame = FALSE, !.resolved = TRUE]

\* The stored cancel function: animationId is set as soon as the animation
\* has started, so the requested frame is cancelled and the promise resolved
\* (animation.js 91-96, 191-196).
cancel(a) == [a EXCEPT !.frame = FALSE, !.resolved = TRUE]

\* cancelAllAnimations (animation.js 471-478): every stored cancel function
\* is called and the Map is cleared.
cancelAllAnimations(anims, reg) ==
    LET held == {reg[k] : k \in DOMAIN reg}
    IN  [anims |-> [i \in 1..Len(anims) |->
                       IF i \in held THEN cancel(anims[i]) ELSE anims[i]],
         reg |-> <<>>]

AnimInit ==
    /\ anNow = 0
    /\ anAnims = <<>>
    /\ anActive = <<>>
    /\ anCancels = 0
    /\ anLate = FALSE

\* An animation is started through animateScroll or manualAnimate.
AnimStart ==
    /\ Len(anAnims) < MaxAnims
    /\ \E kind \in Kinds :
         LET r == startAnimation(anAnims, anActive, kind, anNow, anCancels)
         IN  anAnims' = r.anims /\ anActive' = r.reg
    /\ UNCHANGED <<anNow, anCancels, anLate>>

\* A requested frame of an animation runs.
AnimFrame ==
    /\ \E i \in 1..Len(anAnims) :
         /\ anAnims[i].frame
         /\ anAnims' = [anAnims EXCEPT ![i] = animate(@)]
         /\ anLate' = (anLate \/ anAnims[i].epoch < anCancels)
    /\ UNCHANGED <<anNow, anActive, anCancels>>

\* A millisecond passes.
AnimTick ==
    /\ anNow < MaxAnims
    /\ anNow' = anNow + 1
    /\ UNCHANGED <<anAnims, anActive, anCancels, anLate>>

\* cancelAllAnimations() is called.
CancelAll ==
    /\ anCancels < MaxAnims
    /\ LET r == cancelAllAnimations(anAnims, anActive)
       IN  anAnims' = r.anims /\ anActive' = r.reg
    /\ anCancels' = anCancels + 1
    /\ UNCHANGED <<anNow, anLate>>

(***************************************************************************)
(* Start-up of the home page.  The global script (src/js/global.js         *)
(* 977-1016) marks the body and dispatches appleGlobalLoaded once; the     *)
(* home script (src/unnamed/part_002) exists in a legacy version (824-863) *)
(* and a modular one (890-898, 1535-1638).  Either script may run first,   *)
(* and a page may lack the global script.                                  *)
(***************************************************************************)
\* The controllers in the order their timeouts are set (part_002 841-851,
\* 1550-1567); a sixth timeout marks the page (853-858, 1570-1573).
ControllerOrder == <<"performance", "hero", "services", "about", "cta">>

Controllers == {ControllerOrder[i] : i \in 1..Len(ControllerOrder)}

Boot == [listening |-> btListening, fallback |-> btFallback,
         starts |-> btStarts, batches |-> btBatches,
         homePage |-> btHomePage]

\* startAppleHomeControllers (part_002 838-863), and the part of
\* AppleHomePageController.init after its await (1545-1573): six timeouts.
startAppleHomeControllers(b) ==
    [b EXCEPT !.starts = @ + 1, !.batches = Append(@, 0)]

\* The legacy initializeAppleHome (part_002 824-833)
Legacy_initializeAppleHome(b) ==
    IF btGlobal
    THEN startAppleHomeControllers(b)
    ELSE [b EXCEPT !.listening = TRUE, !.fallback = TRUE]

\* waitForAppleGlobal (part_002 890-898) as awaited by init (1542-1545):
\* window.AppleGlobal (global.js 1005-1016) has no property "initialized",
\* so the promise is resolved by the event only.
waitForAppleGlobal(b) == [b EXCEPT !.listening = TRUE]

\* The modular initializeAppleHome (part_002 1628-1638)
initializeAppleHome(b) ==
    IF b.homePage
    THEN b
    ELSE waitForAppleGlobal([b EXCEPT !.homePage = TRUE])

\* document.dispatchEvent(new CustomEvent('appleGlobalLoaded')): the legacy
\* listener stays registered, the modular one is registered with once.
dispatchGlobalLoaded(b) ==
    IF ~b.listening THEN b
    ELSE IF btVariant = "legacy"
         THEN startAppleHomeControllers(b)
         ELSE startAppleHomeControllers([b EXCEPT !.listening = FALSE])

BootCommit(b) ==
    /\ btListening' = b.listening
    /\ btFallback' = b.fallback
    /\ btStarts' = b.starts
    /\ btBatches' = b.batches
    /\ btHomePage' = b.homePage

BootInit ==
    /\ btVariant \in {"legacy", "modular"}
    /\ btHasGlobal \in BOOLEAN
    /\ btGlobal = FALSE
    /\ btCalls = 0
    /\ btHomePage = FALSE
    /\ btListening = FALSE
    /\ btFallback = FALSE
    /\ btStarts = 0
    /\ btBatches = <<>>
    /\ btBuilt = [c \in Controllers |-> 0]
    /\ btLoaded = FALSE
    /\ btEvents = 0

\* initializeAppleGlobal runs (global.js 977-995).
GlobalInit ==
    /\ btHasGlobal /\ ~btGlobal
    /\ btGlobal' = TRUE
    /\ BootCommit(dispatchGlobalLoaded(Boot))
    /\ UNCHANGED <<btVariant, btHasGlobal, btCalls, btBuilt, btLoaded, btEvents>>

\* initializeAppleHome is called: by the home script itself when the DOM is
\* ready, and in the modular version again by whoever calls
\* window.initializeAppleHome.
HomeInit ==
    /\ btCalls < (IF btVariant = "legacy" THEN 1 ELSE MaxHomeCalls)
    /\ btCalls' = btCalls + 1
    /\ BootCommit(IF btVariant = "legacy"
                  THEN Legacy_initializeAppleHome(Boot)
                  ELSE initializeAppleHome(Boot))
    /\ UNCHANGED <<btVariant, btHasGlobal, btGlobal, btBuilt, btLoaded, btEvents>>

\* The 1000 ms fallback timeout of the legacy script fires.
FallbackTimeout ==
    /\ btFallback
    /\ BootCommit(startAppleHomeControllers([Boot EXCEPT !.fallback = FALSE]))
    /\ UNCHANGED <<btVariant, btHasGlobal, btGlobal, btCalls, btBuilt, btLoaded, btEvents>>

\* The next timeout of a scheduling fires: one of the five controllers is
\* constructed, or, last, the page is marked and appleHomeLoaded dispatched.
BootTimeout ==
    /\ \E i \in 1..Len(btBatches) :
         LET fired == btBatches[i]
         IN  /\ fired <= Len(ControllerOrder)
             /\ btBatches' = [btBatches EXCEPT ![i] = fired + 1]
             /\ IF fired < Len(ControllerOrder)
                THEN /\ btBuilt' = [btBuilt EXCEPT ![ControllerOrder[fired + 1]] = @ + 1]
                     /\ UNCHANGED <<btLoaded, btEvents>>
                ELSE /\ btLoaded' = TRUE
                     /\ btEvents' = btEvents + 1
                     /\ UNCHANGED btBuilt
    /\ UNCHANGED <<btVariant, btHasGlobal, btGlobal, btCalls, btHomePage,
                   btListening, btFallback, btStarts>>

(***************************************************************************)
(* Specifications.  Each one runs one subsystem and holds the other still. *)
(***************************************************************************)
ThemeIdle ==
    /\ ThemeInit
    /\ variant = "TC" /\ storeMode = "ok" /\ store = NoValue
    /\ os = "light" /\ pageMeta = 0 /\ pageNav = MaxNavItems /\ overlap = 1

RevealIdle ==
    /\ RevealInit
    /\ rVariant = "legacy" /\ section = "hero" /\ ioAvail = "ok"
    /\ nElems = 0 /\ isVisible = FALSE

DebounceIdle == DebounceInit /\ dbImmediate = FALSE

NavIdle ==
    /\ NavInit
    /\ navVariant = "modular" /\ ~navIOS /\ navWidth = "mobile"

MegaIdle == MegaInit /\ mmWide = TRUE

AnimIdle == AnimInit

BootIdle == BootInit /\ btVariant = "legacy" /\ btHasGlobal

UtilIdle == DebounceIdle /\ NavIdle /\ MegaIdle /\ AnimIdle /\ BootIdle

\* Spec runs both controllers in every environment, on a page whose
\* navigation container is full and with one transition at a time.  SpecTC
\* runs AppleThemeController with a working store, frees the navigation
\* container and lets transitions overlap.
Init == ThemeInit /\ pageNav = MaxNavItems /\ overlap = 1 /\ RevealIdle /\ UtilIdle

Next ==
    \/ InitializeTC /\ UNCHANGED <<revealVars, utilVars>>
    \/ InitializeDM /\ UNCHANGED <<revealVars, utilVars>>
    \/ Click /\ UNCHANGED <<revealVars, utilVars>>
    \/ KeyDown /\ UNCHANGED <<revealVars, utilVars>>
    \/ SetThemeCall /\ UNCHANGED <<revealVars, utilVars>>
    \/ ForceThemeCall /\ UNCHANGED <<revealVars, utilVars>>
    \/ OSChange /\ UNCHANGED <<revealVars, utilVars>>
    \/ DestroyCall /\ UNCHANGED <<revealVars, utilVars>>
    \/ TransitionEnd /\ UNCHANGED <<revealVars, utilVars>>
    \/ Reload /\ UNCHANGED <<revealVars, utilVars>>

Spec == Init /\ [][Next]_vars

NextTC ==
    \/ InitializeTC /\ UNCHANGED <<revealVars, utilVars>>
    \/ Click /\ UNCHANGED <<revealVars, utilVars>>
    \/ KeyDown /\ UNCHANGED <<revealVars, utilVars>>
    \/ SetThemeCall /\ UNCHANGED <<revealVars, utilVars>>
    \/ ForceThemeCall /\ UNCHANGED <<revealVars, utilVars>>
    \/ OSChange /\ UNCHANGED <<revealVars, utilVars>>
    \/ DestroyCall /\ UNCHANGED <<revealVars, utilVars>>
    \/ TransitionEnd /\ UNCHANGED <<revealVars, utilVars>>
    \/ Reload /\ UNCHANGED <<revealVars, utilVars>>

InitTC ==
    /\ ThemeInit /\ variant = "TC" /\ storeMode = "ok" /\ pageMeta = 1
    /\ store \in {NoValue, "dark"} /\ os \in Themes
    /\ overlap = MaxTransitions
    /\ RevealIdle /\ UtilIdle

SpecTC == InitTC /\ [][NextTC]_vars

RevealNext ==
    \/ Construct /\ UNCHANGED <<themeVars, utilVars>>
    \/ Scroll /\ UNCHANGED <<themeVars, utilVars>>
    \/ Deliver /\ UNCHANGED <<themeVars, utilVars>>
    \/ FallbackFire /\ UNCHANGED <<themeVars, utilVars>>
    \/ TimerFire /\ UNCHANGED <<themeVars, utilVars>>
    \/ MediaLoaded /\ UNCHANGED <<themeVars, utilVars>>

InitReveal == ThemeIdle /\ RevealInit /\ UtilIdle

SpecReveal == InitReveal /\ [][RevealNext]_vars

\* SpecDebounce runs one debounced function in either mode.
DebounceNext ==
    \/ DebouncedCall /\ UNCHANGED <<themeVars, revealVars, navVars, megaVars, animVars, bootVars>>
    \/ DebounceTick /\ UNCHANGED <<themeVars, revealVars, navVars, megaVars, animVars, bootVars>>
    \/ DebounceFire /\ UNCHANGED <<themeVars, revealVars, navVars, megaVars, animVars, bootVars>>

InitDebounce == ThemeIdle /\ RevealIdle /\ DebounceInit /\ NavIdle /\ MegaIdle /\ AnimIdle /\ BootIdle

SpecDebounce == InitDebounce /\ [][DebounceNext]_vars

\* SpecNav runs the navbar of either script version.
NavNext ==
    \/ NavTogglerClick /\ UNCHANGED <<themeVars, revealVars, debounceVars, megaVars, animVars, bootVars>>
    \/ NavEscape /\ UNCHANGED <<themeVars, revealVars, debounceVars, megaVars, animVars, bootVars>>
    \/ NavOutsideClick /\ UNCHANGED <<themeVars, revealVars, debounceVars, megaVars, animVars, bootVars>>
    \/ NavAnchorClick /\ UNCHANGED <<themeVars, revealVars, debounceVars, megaVars, animVars, bootVars>>
    \/ NavResizeEvent /\ UNCHANGED <<themeVars, revealVars, debounceVars, megaVars, animVars, bootVars>>
    \/ NavResizeHandled /\ UNCHANGED <<themeVars, revealVars, debounceVars, megaVars, animVars, bootVars>>
    \/ NavScroll /\ UNCHANGED <<themeVars, revealVars, debounceVars, megaVars, animVars, bootVars>>
    \/ NavCloseTimer /\ UNCHANGED <<themeVars, revealVars, debounceVars, megaVars, animVars, bootVars>>
    \/ NavFrame /\ UNCHANGED <<themeVars, revealVars, debounceVars, megaVars, animVars, bootVars>>

InitNav == ThemeIdle /\ RevealIdle /\ DebounceIdle /\ NavInit /\ MegaIdle /\ AnimIdle /\ BootIdle

SpecNav == InitNav /\ [][NavNext]_vars

\* SpecMega runs the mega menu on either side of the breakpoint.
MegaNext ==
    \/ MegaEnter /\ UNCHANGED <<themeVars, revealVars, debounceVars, navVars, animVars, bootVars>>
    \/ MegaLeave /\ UNCHANGED <<themeVars, revealVars, debounceVars, navVars, animVars, bootVars>>
    \/ MegaCloseTimeout /\ UNCHANGED <<themeVars, revealVars, debounceVars, navVars, animVars, bootVars>>
    \/ MegaFadeOutDone /\ UNCHANGED <<themeVars, revealVars, debounceVars, navVars, animVars, bootVars>>
    \/ MegaFadeInDone /\ UNCHANGED <<themeVars, revealVars, debounceVars, navVars, animVars, bootVars>>
    \/ MegaBackdropTimer /\ UNCHANGED <<themeVars, revealVars, debounceVars, navVars, animVars, bootVars>>
    \/ MegaBackdropClick /\ UNCHANGED <<themeVars, revealVars, debounceVars, navVars, animVars, bootVars>>
    \/ MegaOutsideClick /\ UNCHANGED <<themeVars, revealVars, debounceVars, navVars, animVars, bootVars>>
    \/ MegaEscape /\ UNCHANGED <<themeVars, revealVars, debounceVars, navVars, animVars, bootVars>>
    \/ MobToggleClick /\ UNCHANGED <<themeVars, revealVars, debounceVars, navVars, animVars, bootVars>>
    \/ MegaTriggerClick /\ UNCHANGED <<themeVars, revealVars, debounceVars, navVars, animVars, bootVars>>
    \/ MegaResizeEvent /\ UNCHANGED <<themeVars, revealVars, debounceVars, navVars, animVars, bootVars>>
    \/ MegaResizeHandled /\ UNCHANGED <<themeVars, revealVars, debounceVars, navVars, animVars, bootVars>>
    \/ MobSlideUpDone /\ UNCHANGED <<themeVars, revealVars, debounceVars, navVars, animVars, bootVars>>
    \/ MobSlideDownDone /\ UNCHANGED <<themeVars, revealVars, debounceVars, navVars, animVars, bootVars>>

InitMega == ThemeIdle /\ RevealIdle /\ DebounceIdle /\ NavIdle /\ MegaInit /\ AnimIdle /\ BootIdle

SpecMega == InitMega /\ [][MegaNext]_vars

\* SpecAnim runs the animation registry.
AnimNext ==
    \/ AnimStart /\ UNCHANGED <<themeVars, revealVars, debounceVars, navVars, megaVars, bootVars>>
    \/ AnimFrame /\ UNCHANGED <<themeVars, revealVars, debounceVars, navVars, megaVars, bootVars>>
    \/ AnimTick /\ UNCHANGED <<themeVars, revealVars, debounceVars, navVars, megaVars, bootVars>>
    \/ CancelAll /\ UNCHANGED <<themeVars, revealVars, debounceVars, navVars, megaVars, bootVars>>

InitAnim == ThemeIdle /\ RevealIdle /\ DebounceIdle /\ NavIdle /\ MegaIdle /\ AnimInit /\ BootIdle

SpecAnim == InitAnim /\ [][AnimNext]_vars

\* SpecBoot runs the start-up of either home script.  The browser runs
\* every script and every timeout that is due, hence the fairness.
BootNext ==
    \/ GlobalInit /\ UNCHANGED <<themeVars, revealVars, debounceVars, navVars, megaVars, animVars>>
    \/ HomeInit /\ UNCHANGED <<themeVars, revealVars, debounceVars, navVars, megaVars, animVars>>
    \/ FallbackTimeout /\ UNCHANGED <<themeVars, revealVars, debounceVars, navVars, megaVars, animVars>>
    \/ BootTimeout /\ UNCHANGED <<themeVars, revealVars, debounceVars, navVars, megaVars, animVars>>

InitBoot == ThemeIdle /\ RevealIdle /\ DebounceIdle /\ NavIdle /\ MegaIdle /\ AnimIdle /\ BootInit

SpecBoot == InitBoot /\ [][BootNext]_vars /\ WF_vars(BootNext)

(***************************************************************************)
(* Properties of the theme system (checked under Spec).                    *)
(***************************************************************************)
Other(t) == IF t = "dark" THEN "light" ELSE "dark"
MarkerClasses == {"light-theme", "dark-theme"}
DomOf(r) == [cls |-> r.cls, data |-> r.data, metaCount |-> r.metaCount,
             metaContent |-> r.metaContent]
Shown(r) == [cls |-> r.cls, data |-> r.data, metaContent |-> r.metaContent,
             cur |-> r.cur, label |-> r.label]
Did(s) == \E i \in 1..Len(log) : log[i] = s

\* C1: once a theme has been applied, and as long as every theme value stored
\* or passed in is light or dark, <html> and <body> each carry exactly one of
\* light-theme / dark-theme, and their data-theme names that class and is the
\* value last applied.
C1_RootNodesConsistent ==
    (applied # NoValue /\ ~invalidSeen) =>
        \A n \in Nodes :
            /\ Cardinality(cls[n] \cap MarkerClasses) = 1
            /\ data[n] \in Themes
            /\ ThemeClass(data[n]) \in cls[n]
            /\ data[n] = applied

\* C1 witness: a toggle from light to dark has re-applied the presentation.
C1_Witness ==
    /\ op.name = "activate" /\ ~invalidSeen
    /\ pre.applied = "light" /\ applied = "dark"
    /\ cls["body"] = {"dark-theme"} /\ data["html"] = "dark"

\* C2 as stated: an activation from light leaves state dark, persisted value
\* dark and a broadcast payload dark; from dark everything returns to light;
\* after n activations from t the theme is t for even n, the other for odd n.
C2_Original ==
    /\ (op.name = "activate" /\ pre.cur \in Themes) =>
           /\ cur = Other(pre.cur)
           /\ store = cur
           /\ events # <<>> /\ events[Len(events)].theme = cur
    /\ (base \in Themes) =>
           cur = IF nToggles % 2 = 0 THEN base ELSE Other(base)

\* C2 amended: the same, with the persisted value required only when the
\* store accepts the write (a rejected write leaves the store as it was).
C2_ToggleFlips ==
    /\ (op.name = "activate" /\ pre.cur \in Themes) =>
           /\ cur = Other(pre.cur)
           /\ store = IF storeMode = "ok" THEN cur ELSE pre.store
           /\ events # <<>> /\ events[Len(events)].theme = cur
    /\ (base \in Themes) =>
           cur = IF nToggles % 2 = 0 THEN base ELSE Other(base)

\* C2 witness: the second activation of a run that began at light.
C2_Witness ==
    /\ op.name = "activate" /\ nToggles = 2 /\ base = "light"
    /\ pre.cur = "dark" /\ cur = "light" /\ store = "light"
    /\ events[1].theme = "light"

\* C3 as stated: on every toggle the steps run in the order apply, persist,
\* re-render, broadcast, and what a listener of the broadcast reads from the
\* DOM and from the store no longer shows the old theme.
C3_Original ==
    op.name = "activate" =>
        /\ log = <<"apply", "persist", "render", "broadcast">>
        /\ \A i \in 1..Len(events) :
               /\ \A n \in Nodes : events[i].seen.data[n] = cur
               /\ \A n \in Nodes : pre.cur \in Themes =>
                                        ThemeClass(pre.cur) \notin events[i].seen.cls[n]
               /\ events[i].seen.label = getAriaLabel(cur)
               /\ events[i].seen.store # pre.cur

\* C3 amended: the order is as stated and the listener reads the new theme
\* from the DOM and the button; it reads the new theme from the store when
\* the store accepted the write, and the untouched store otherwise.
C3_ToggleOrder ==
    op.name = "activate" =>
        /\ log = <<"apply", "persist", "render", "broadcast">>
        /\ \A i \in 1..Len(events) :
               /\ \A n \in Nodes : events[i].seen.data[n] = cur
               /\ \A n \in Nodes : pre.cur \in Themes =>
                                        ThemeClass(pre.cur) \notin events[i].seen.cls[n]
               /\ events[i].seen.label = getAriaLabel(cur)
               /\ events[i].seen.store = IF storeMode = "ok" THEN cur ELSE pre.store

\* C3 witness: a listener of a light-to-dark toggle reads dark from the store
\* that held light before.
C3_Witness ==
    /\ op.name = "activate" /\ pre.cur = "light" /\ pre.store = "light"
    /\ Len(events) = 1 /\ events[1].seen.store = "dark"
    /\ events[1].seen.data["body"] = "dark"

\* C5 as stated: once the user has activated the toggle, every later OS
\* colour-scheme change leaves classes, data-theme, meta theme-color, the
\* current theme and the toggle label unchanged.
C5_Original ==
    (activated /\ op.name = "osChange") => Shown(World) = Shown(pre)

\* C5 amended: the same, provided the store does not read as empty when the
\* OS changes (the choice was persisted, or the store cannot be read).
C5_DeafAfterPersistedChoice ==
    (activated /\ op.name = "osChange" /\ getItem(World) # NoValue) =>
        Shown(World) = Shown(pre)

\* C5 witness: the OS turned light after a persisted choice of dark, and the
\* page stayed dark.
C5_Witness ==
    /\ activated /\ op.name = "osChange" /\ op.arg = "light"
    /\ phase = "ready" /\ store = "dark"
    /\ cur = "dark" /\ data["body"] = "dark" /\ label = "Switch to light mode"

\* C6: with a readable store holding no value, an OS change re-applies the
\* presentation to the new OS value and leaves the store empty; and the
\* store changes only in a toggle or setTheme, never in initialization,
\* detection, OS-change handling or forceTheme.
C6_StoreWrittenOnlyByToggle ==
    /\ (op.name = "osChange" /\ phase = "ready" /\ getItem(World) = NoValue) =>
           /\ \A n \in Nodes : data[n] = op.arg /\ ThemeClass(op.arg) \in cls[n]
           /\ metaContent = Primary(op.arg)
           /\ cur = op.arg
    /\ (op.name = "osChange" /\ pre.store = NoValue) => store = NoValue
    /\ (store # pre.store) => op.name \in {"activate", "setTheme"}

\* C6 witness: an OS change to dark repainted a page that followed the system.
C6_Witness ==
    /\ op.name = "osChange" /\ op.arg = "dark" /\ phase = "ready"
    /\ storeMode = "ok" /\ store = NoValue
    /\ pre.data["body"] = "light" /\ data["body"] = "dark"

C8_Original ==
    resolved.called =>
        /\ resolved.out # Raised
        /\ (resolved.store \in {NoValue, Raised} /\ resolved.os = "dark") =>
               resolved.out = "dark"
        /\ (resolved.store \in {NoValue, Raised} /\ resolved.os # "dark") =>
               resolved.out = "light"

\* C9: with the store available, a theme handed to persist is what the next
\* resolve (the next page load) returns, whatever the OS reports and whatever
\* was stored before.
C9_RoundTrip ==
    (op.name = "init" /\ resolved.called /\ storeMode = "ok" /\ persisted \in Themes) =>
        resolved.out = persisted

\* C9 witness: dark was persisted over a stored light and resolved after a
\* reload under an OS that reports light.
C9_Witness ==
    /\ op.name = "init" /\ resolved.called /\ storeMode = "ok"
    /\ persisted = "dark" /\ resolved.os = "light" /\ resolved.out = "dark"

\* C10: applying the theme that is already applied changes nothing: theme
\* classes, data-theme and the meta theme-color tag are as after the first
\* apply, with exactly one tag whose content is the theme's primary colour.
C10_ApplyIdempotent ==
    (phase = "ready" /\ op.name # "init" /\ Did("apply")
        /\ applied \in Themes /\ pre.applied = applied) =>
        /\ DomOf(World) = DomOf(pre)
        /\ metaCount = 1
        /\ metaContent = Primary(applied)

\* C10 witness: forceTheme(dark) on a page that already shows dark.
C10_Witness ==
    /\ phase = "ready" /\ op.name = "forceTheme" /\ op.arg = "dark"
    /\ Did("apply") /\ pre.applied = "dark" /\ pre.data["html"] = "dark"
    /\ metaCount = 1 /\ metaContent = "#000000"

\* C11 as stated: in AppleThemeController an invalid preference value is
\* coerced to light wherever it is met: stored when the preference is
\* resolved or detected, or passed to setTheme or forceTheme; data-theme and
\* the current theme are then light and never the invalid value.
C11_Original ==
    variant = "TC" =>
        /\ (op.name \in {"setTheme", "forceTheme"} /\ op.arg = Invalid) =>
               cur = "light" /\ \A n \in Nodes : data[n] = "light"
        /\ (op.name = "init" /\ resolved.called /\ resolved.store = Invalid) =>
               cur = "light" /\ \A n \in Nodes : data[n] = "light"
        /\ cur # Invalid
        /\ \A n \in Nodes : data[n] # Invalid

\* C12 as stated: when a step of a toggle fails (here: the store write
\* throws), the activation leaves the current theme, the applied DOM theme
\* and the persisted value as they were before it.
C12_Original ==
    (op.name = "activate" /\ storeMode # "ok") =>
        /\ cur = pre.cur
        /\ data = pre.data /\ cls = pre.cls
        /\ store = pre.store

\* C13: a toggle whose store write fails (quota exceeded, store disabled)
\* still completes: the new theme is applied to the DOM, the button is
\* re-rendered and exactly one change event is broadcast, all four steps
\* having run, as when the write succeeds.
C13_WriteFailureSwallowed ==
    (op.name = "activate" /\ storeMode # "ok") =>
        /\ cur = Other(pre.cur)
        /\ \A n \in Nodes : data[n] = cur /\ ThemeClass(cur) \in cls[n]
        /\ metaContent = Primary(cur)
        /\ label = getAriaLabel(cur) /\ icon = getToggleIcon(cur)
        /\ Len(events) = 1 /\ events[1].theme = cur
        /\ log = <<"apply", "persist", "render", "broadcast">>

\* C13 witness: a click on a page whose store is full flipped light to dark
\* and was broadcast, the store keeping its old value.
C13_Witness ==
    /\ op.name = "activate" /\ storeMode = "quota"
    /\ pre.cur = "light" /\ cur = "dark" /\ store = pre.store
    /\ data["body"] = "dark" /\ Len(events) = 1

\* C17 as stated: each activation of the toggle dispatches exactly one
\* theme-change event carrying the new theme and a timestamp; initialization,
\* an OS change and forceTheme dispatch none.
C17_Original ==
    /\ op.name = "activate" =>
           /\ Len(events) = 1
           /\ events[1].theme = cur /\ cur = Other(pre.cur)
           /\ events[1].timestamp
    /\ op.name \in {"init", "osChange", "forceTheme"} => events = <<>>

\* C19: AppleThemeController initialized with nothing stored and the OS
\* reporting dark leaves data-theme dark on the root nodes, the meta
\* theme-color at the dark primary colour #000000 and the button labelled
\* "Switch to light mode"; with the OS reporting light, data-theme light, the
\* light primary colour and "Switch to dark mode".
C19_EndToEndInit ==
    (variant = "TC" /\ op.name = "init" /\ resolved.called
        /\ resolved.store = NoValue /\ resolved.os \in Themes) =>
        /\ \A n \in Nodes : data[n] = resolved.os
        /\ metaCount = 1
        /\ metaContent = IF resolved.os = "dark" THEN "#000000" ELSE "#f5f5f7"
        /\ label = IF resolved.os = "dark" THEN "Switch to light mode"
                   ELSE "Switch to dark mode"

\* C19 witness: initialization under a dark OS with an empty store and no
\* theme-color tag in the page.
C19_Witness ==
    /\ variant = "TC" /\ op.name = "init" /\ phase = "ready"
    /\ resolved.store = NoValue /\ resolved.os = "dark" /\ pageMeta = 0
    /\ data["html"] = "dark" /\ metaContent = "#000000"
    /\ label = "Switch to light mode"

\* C18: AppleThemeController puts one toggle button into the navigation
\* container: before the former last child when the container has children,
\* as the only child when it is empty; without a container nothing is
\* inserted, and initialization still applies the resolved theme and
\* registers the OS listener.
C18_ButtonPlacement ==
    /\ Cardinality({i \in 1..Len(navbar) : navbar[i] = Button}) <= 1
    /\ (variant = "TC" /\ op.name = "init" /\ phase = "ready") =>
           /\ pageNav >= 1 =>
                  /\ Len(navbar) = pageNav + 1
                  /\ navbar[Len(navbar) - 1] = Button
                  /\ \A i \in 1..Len(navbar) : i # Len(navbar) - 1 => navbar[i] = "item"
           /\ pageNav = 0 => navbar = <<Button>>
           /\ pageNav < 0 =>
                  /\ navbar = <<>>
                  /\ \A n \in Nodes : data[n] = resolved.out
                                        /\ ThemeClass(resolved.out) \in cls[n]
                  /\ cur = resolved.out
                  /\ listening

\* C18 witness: the button sits between the two links of the container.
C18_Witness ==
    /\ variant = "TC" /\ op.name = "init" /\ phase = "ready"
    /\ pageNav = 2 /\ navbar = <<"item", Button, "item">>

\* C20: in AppleThemeController an apply with the transition flag adds the
\* transition class to <body> after classes, data-theme and meta theme-color
\* have been written, and a timeout takes it off again: whenever no timeout
\* is pending the class is absent, however closely the applies followed each
\* other; applies without the flag (initialization, forceTheme) do not add it.
C20_TransitionClass ==
    variant = "TC" =>
        /\ transTimers = 0 => ~trans
        /\ transSaw # <<>> => transSaw[1] = Dom(World)
        /\ op.name \in {"activate", "setTheme"} => transSaw # <<>>
        /\ op.name \in {"init", "forceTheme"} => transSaw = <<>>
        /\ op.name = "init" => (~trans /\ transTimers = 0)

\* C20 witness: a second toggle while the first transition is still running.
C20_Witness ==
    /\ variant = "TC" /\ op.name = "activate" /\ nToggles = 2
    /\ trans /\ transTimers = 2
    /\ transSaw[1].data["body"] = cur

\* C16: once AppleThemeController.destroy has returned, no callback of the
\* controller fires any more: no transition timeout is left pending, and an
\* OS colour-scheme change leaves the page and the controller as they were.
C16_Original ==
    phase = "destroyed" =>
        /\ transTimers = 0
        /\ op.name = "osChange" =>
               /\ cls = pre.cls /\ data = pre.data
               /\ metaContent = pre.metaContent
               /\ cur = pre.cur

(***************************************************************************)
(* Properties of the scroll-reveal latch (checked under SpecReveal).       *)
(***************************************************************************)
\* C4 as stated: under any sequence of intersection notifications the reveal
\* callback runs at most once per controller, at most once per observer
\* callback, and the latch is set in the tick of the first reveal.
C4_Original ==
    section \in Sections =>
        /\ revealCalls <= 1
        /\ lastTick <= 1
        /\ (rPhase = "watching" /\ revealCalls >= 1) => hasAnimated

\* C14 as stated: after the first reveal of a watched target (a section, or
\* a lazily loaded media element whose load was triggered) the target is no
\* longer observed, and the watcher callback is never run for it again.
C14_Original ==
    /\ ~lateDelivery
    /\ (revealDone > 0 /\ ioAvail = "ok") => rPhase # "watching"

\* C15 as stated: when IntersectionObserver, or the global observe helper
\* built on it, is unavailable, registration does not throw and every section
\* that registers a reveal gets it invoked, once, by the fallback; no section
\* is left without a pending or completed reveal.  (Sections whose reveal
\* itself throws are left out here; they are the subject of C4.)
C15_Original ==
    (section \in Sections /\ ioAvail # "ok" /\ rPhase # "none" /\ ~RevealThrows
        /\ ~(section = "services" /\ nElems = 0)) =>
        /\ rPhase \in {"fallback", "fallbackDone"}
        /\ rPhase = "fallbackDone" => (revealCalls = 1 /\ revealDone = 1)

(***************************************************************************)
(* Properties of debounce (checked under SpecDebounce).                    *)
(***************************************************************************)
\* C21: in trailing mode func is not invoked while a burst is running (a
\* timeout is pending) and, once the timeout of the last call has run, it
\* has been invoked exactly once, with the arguments of the last call; in
\* immediate mode it is invoked with the first call of a burst and never by
\* a timeout.  At most one timeout is pending at any time.
C21_Debounce ==
    /\ Cardinality(dbTimers) <= 1
    /\ ~dbImmediate =>
           /\ dbTimers # {} => dbInvoked = <<>>
           /\ (dbTimers = {} /\ dbBurst # <<>>) =>
                  dbInvoked = <<dbBurst[Len(dbBurst)]>>
    /\ dbImmediate =>
           /\ dbBurst # <<>> => dbInvoked = <<dbBurst[1]>>
           /\ dbTrailing = 0

\* C21 witness: a burst of three calls with different arguments has ended
\* with one trailing invocation.
C21_Witness ==
    /\ ~dbImmediate /\ Len(dbBurst) = 3 /\ dbTimers = {}
    /\ dbBurst[1] # dbBurst[3]
    /\ dbInvoked = <<dbBurst[3]>> /\ dbTrailing = 1

(***************************************************************************)
(* Properties of the navbar (checked under SpecNav).                       *)
(***************************************************************************)
\* C22: in AppleNavbar, an Escape keydown, a click outside the navbar, a
\* handled resize that sees a desktop-wide viewport, or a click on an in-page
\* anchor link, made while the menu is open, leaves state.isOpen false, the
\* body without menu-open and aria-expanded "false"; made while the menu is
\* closed, Escape, outside clicks and resizes leave state.isOpen false; a
\* click on the toggler flips state.isOpen.
C22_MobileMenuCloses ==
    navVariant = "modular" =>
        /\ (/\ navOp.was
            /\ \/ navOp.name \in {"escape", "outside", "anchor"}
               \/ navOp.name = "resize" /\ navOp.width = "desktop") =>
               (~navOpen /\ ~navBodyOpen /\ navAria = "false")
        /\ (~navOp.was /\ navOp.name \in {"escape", "outside", "resize"}) =>
               ~navOpen
        /\ navOp.name = "toggle" => navOpen = ~navOp.was

\* C22 witness: the open menu was closed by a resize to desktop width.
C22_Witness ==
    /\ navVariant = "modular"
    /\ navOp = [name |-> "resize", was |-> TRUE, width |-> "desktop"]
    /\ ~navOpen /\ ~navBodyOpen /\ navAria = "false"

\* C25: whenever state.isOpen is true the collapse element carries the
\* class show.
C25_Original == navOpen => navShow

(***************************************************************************)
(* Properties of the mega menu (checked under SpecMega).                   *)
(***************************************************************************)
\* C23: once every animation and timer of the mega menu has completed, at
\* most one mega menu carries the class active, state.activeMenu is that
\* menu (null when there is none), and the backdrop exists iff a menu is
\* active.
C23_Original ==
    MegaQuiescent =>
        /\ Cardinality(mmActive) <= 1
        /\ mmActiveMenu = 0 <=> mmActive = {}
        /\ mmActiveMenu # 0 => mmActive = {mmActiveMenu}
        /\ mmBackdrop <=> mmActive # {}

\* C26: after openMegaMenu(m, trigger), once every animation has completed
\* and no other event has come, menu m carries the class active,
\* state.activeMenu is m and aria-expanded of its trigger is "true".
C26_Original ==
    (MegaQuiescent /\ mmOp.name = "open") =>
        /\ mmOp.m \in mmActive
        /\ mmActiveMenu = mmOp.m
        /\ mmAria[mmOp.m] = "true"

\* C27: in every quiescent state state.isMobileMenuOpen is true iff the
\* mobile menu carries the class active, aria-expanded of the toggle is
\* "true" and body scrolling is locked.
C27_Original ==
    MegaQuiescent =>
        /\ mobOpen <=> mobMenuActive
        /\ mobOpen <=> mobAria = "true"
        /\ mobOpen <=> mobLocked

(***************************************************************************)
(* Properties of the animation registry (checked under SpecAnim).          *)
(***************************************************************************)
\* C24: after cancelAllAnimations has returned, every animation started
\* before it has no frame requested, runs no further frame update and has
\* its promise resolved, and the registry is empty until the next start.
C24_Original ==
    /\ ~anLate
    /\ \A i \in 1..Len(anAnims) :
         anAnims[i].epoch < anCancels =>
             (~anAnims[i].frame /\ anAnims[i].resolved)
    /\ (\A i \in 1..Len(anAnims) : anAnims[i].epoch < anCancels) =>
           (anCancels > 0 => DOMAIN anActive = {})

(***************************************************************************)
(* Properties of the start-up (checked under SpecBoot).                    *)
(***************************************************************************)
\* C28: in the legacy home script startAppleHomeControllers runs at most
\* once per page load, so every section controller is constructed at most
\* once and appleHomeLoaded is dispatched at most once.
C28_Original ==
    btVariant = "legacy" =>
        /\ btStarts <= 1
        /\ \A c \in Controllers : btBuilt[c] <= 1
        /\ btEvents <= 1

\* C29: with the modular home script on a page that includes the global
\* script, whatever the order of the two scripts, eventually every controller has been constructed and the page is marked
\* initialized with appleHomeLoaded dispatched; and further calls of
\* initializeAppleHome construct nothing again.
C29_Original ==
    (btVariant = "modular" /\ btHasGlobal) =>
        /\ <>(/\ \A c \in Controllers : btBuilt[c] = 1
              /\ btLoaded /\ btEvents = 1)
        /\ [](btStarts <= 1 /\ \A c \in Controllers : btBuilt[c] <= 1)
====
